---- MODULE Spec2Model ----
(***************************************************************************)
(* The einfra agent: identity, enrollment, the mutually authenticated      *)
(* transport, the action registry and the three runtime loops, as one      *)
(* state machine.  One process run is modelled from main()'s first line    *)
(* to its exit; the file system and the control plane are the environment. *)
(***************************************************************************)
EXTENDS Integers, Sequences, FiniteSets, TLC

-----------------------------------------------------------------------------
(* Bounds of the model *)

\* enrollment requests one run may put on the wire
MaxPolls == 3
\* actions in one decoded poll batch
MaxBatch == 2
\* distinct RSA keys that exist in the modelled world
NumKeys == 3
\* keys that may already be in the credential files when the process starts
MaxInitKey == 2
\* transport calls the transport harness makes
MaxCalls == 3
\* identities the identity harness generates
MaxGenerations == 2

-----------------------------------------------------------------------------
(* File contents.  A file is its PEM text; two tokens stand for a path     *)
(* with no file and for a file that exists but cannot be read.             *)

Absent == "<absent>"
Unreadable == "<unreadable>"
Garbage == "garbage"
Empty == ""
CAPEM == "CERTIFICATE ca"

KeyNames == <<"RSA PRIVATE KEY 1", "RSA PRIVATE KEY 2", "RSA PRIVATE KEY 3",
              "RSA PRIVATE KEY 4", "RSA PRIVATE KEY 5">>
CertNames == <<"CERTIFICATE for key 1", "CERTIFICATE for key 2",
               "CERTIFICATE for key 3", "CERTIFICATE for key 4",
               "CERTIFICATE for key 5">>

Keys == 1..NumKeys
KeyPEM(k) == KeyNames[k]
CertPEM(k) == CertNames[k]
IsKeyPEM(c) == \E k \in Keys : c = KeyPEM(k)
IsCertPEM(c) == \E k \in Keys : c = CertPEM(k)
\* the key a PEM text is about (0 when it is about none)
KeyOf(c) ==
    IF \E k \in Keys : c \in {KeyPEM(k), CertPEM(k)}
    THEN CHOOSE k \in Keys : c \in {KeyPEM(k), CertPEM(k)}
    ELSE 0

CertPath == "certs/agent.crt"
KeyPath == "certs/agent.key"
CACertPath == "certs/ca.crt"
Paths == {CertPath, KeyPath, CACertPath}

-----------------------------------------------------------------------------
(* The file system *)

\* os.Stat succeeds on every file that exists, readable or not
fileExists(fs, path) == fs[path] # Absent

\* os.ReadFile
CanRead(fs, path) == fs[path] \notin {Absent, Unreadable}

\* os.WriteFile opens with O_CREATE|O_TRUNC and then writes: when the open
\* fails the path is left as it was, when the write fails the file is left
\* truncated or partly written
WriteOutcomes == {"ok", "open_failed", "write_failed"}

WriteFile(fs, path, data, outcome) ==
    CASE outcome = "ok" -> [fs EXCEPT ![path] = data]
      [] outcome = "open_failed" -> fs
      [] OTHER -> [fs EXCEPT ![path] = Garbage]

-----------------------------------------------------------------------------
(* internal/transport *)

BackendURL == "https://backend"
NoTLS == [Certificates |-> <<>>, RootCAs |-> {}]

NewClient(baseURL) == [baseURL |-> baseURL, useMTLS |-> FALSE, tlsConfig |-> NoTLS]

\* tls.LoadX509KeyPair: reads both files, parses both and checks that the
\* certificate's public key is the private key's
LoadX509KeyPair(fs, certPath, keyPath) ==
    CASE ~CanRead(fs, certPath) -> [err |-> "read certificate", cert |-> <<>>]
      [] ~CanRead(fs, keyPath) -> [err |-> "read key", cert |-> <<>>]
      [] ~IsCertPEM(fs[certPath]) -> [err |-> "no certificate PEM data", cert |-> <<>>]
      [] ~IsKeyPEM(fs[keyPath]) -> [err |-> "no private key PEM data", cert |-> <<>>]
      [] KeyOf(fs[certPath]) # KeyOf(fs[keyPath]) ->
            [err |-> "private key does not match public key", cert |-> <<>>]
      [] OTHER -> [err |-> "nil", cert |-> <<fs[certPath], fs[keyPath]>>]

\* x509.CertPool.AppendCertsFromPEM: adds the certificates it can parse and
\* skips everything else
AppendCertsFromPEM(pool, pem) ==
    IF pem = CAPEM \/ IsCertPEM(pem) THEN pool \cup {pem} ELSE pool

\* EnableMTLS with the assignment c.useMTLS = true left out
EnableMTLS_ModeNotSet(c, fs, certPath, keyPath, caPath) ==
    LET pair == LoadX509KeyPair(fs, certPath, keyPath) IN
    CASE pair.err # "nil" -> [c |-> c, err |-> "failed to load client cert"]
      [] ~CanRead(fs, caPath) -> [c |-> c, err |-> "failed to load CA cert"]
      [] OTHER ->
            [c |-> [c EXCEPT !.tlsConfig = [Certificates |-> pair.cert,
                                            RootCAs |-> AppendCertsFromPEM({}, fs[caPath])]],
             err |-> "nil"]

\* EnableMTLS that puts the client back into plain mode before it loads
\* the files
EnableMTLS_ResetFirst(c, fs, certPath, keyPath, caPath) ==
    LET pair == LoadX509KeyPair(fs, certPath, keyPath)
        plain == NewClient(c.baseURL)
    IN CASE pair.err # "nil" -> [c |-> plain, err |-> "failed to load client cert"]
         [] ~CanRead(fs, caPath) -> [c |-> plain, err |-> "failed to load CA cert"]
         [] OTHER ->
               [c |-> [c EXCEPT !.useMTLS = TRUE,
                                !.tlsConfig = [Certificates |-> pair.cert,
                                               RootCAs |-> AppendCertsFromPEM({}, fs[caPath])]],
                err |-> "nil"]

\* Client.EnableMTLS: the client after the call, and the error returned
EnableMTLS(c, fs, certPath, keyPath, caPath) ==
    LET pair == LoadX509KeyPair(fs, certPath, keyPath) IN
    CASE pair.err # "nil" -> [c |-> c, err |-> "failed to load client cert"]
      [] ~CanRead(fs, caPath) -> [c |-> c, err |-> "failed to load CA cert"]
      [] OTHER ->
            [c |-> [c EXCEPT !.useMTLS = TRUE,
                             !.tlsConfig = [Certificates |-> pair.cert,
                                            RootCAs |-> AppendCertsFromPEM({}, fs[caPath])]],
             err |-> "nil"]

\* What the network does with one request: a transport error, or a response
NetError == [failed |-> TRUE, code |-> 0, wellformed |-> FALSE]
StatusCodes == {200, 500}

\* A request as it goes on the wire: the path, whether the client that
\* sent it presents a client certificate, and the JSON body
Request(c, method, path, body) ==
    [method |-> method, path |-> path, mtls |-> c.useMTLS, body |-> body]

NoRequest == [method |-> "NONE", path |-> "", mtls |-> FALSE, body |-> [x \in {} |-> ""]]

\* Client.Post / Client.Get: http.Client.Do sends nothing when the context
\* is already cancelled, nor when the client's TLS configuration trusts no
\* CA at all (the handshake fails before any request is written); otherwise
\* it returns what the network answered, and a response of any status code
\* is returned with a nil error
Do(c, cancelled, method, path, body, net) ==
    CASE cancelled ->
            [sent |-> FALSE, req |-> NoRequest, resp |-> NetError, err |-> "context canceled"]
      [] c.useMTLS /\ c.tlsConfig.RootCAs = {} ->
            [sent |-> FALSE, req |-> NoRequest, resp |-> NetError,
             err |-> "certificate signed by unknown authority"]
      [] OTHER ->
            [sent |-> TRUE, req |-> Request(c, method, path, body), resp |-> net,
             err |-> IF net.failed THEN "transport error" ELSE "nil"]

Post(c, cancelled, path, body, net) == Do(c, cancelled, "POST", path, body, net)

Get(c, cancelled, path, net) == Do(c, cancelled, "GET", path, [x \in {} |-> ""], net)

\* transport.DecodeJSON: an error for a status of 400 or more and for a
\* body that is not the expected JSON, and the decoded value otherwise
DecodeJSON(resp) ==
    CASE resp.code >= 400 -> "HTTP error"
      [] ~resp.wellformed -> "decode error"
      [] OTHER -> "nil"

-----------------------------------------------------------------------------
(* internal/identity and internal/enroll *)

NodeIds == {"node-a"}
Tokens == {"", "token-1"}
Messages == {"", "denied by admin"}

NoIdentity ==
    [NodeID |-> "", Fingerprint |-> "", Hostname |-> "", Platform |-> "", Arch |-> ""]

\* A network interface as net.Interfaces reports it: the loopback flag and
\* the hardware address ("" for a nil HardwareAddr)
Interface(loopback, hw) == [loopback |-> loopback, hw |-> hw]
Lo == Interface(TRUE, "")
Tun == Interface(FALSE, "")
Eth1 == Interface(FALSE, "02:00:00:00:00:01")
Eth2 == Interface(FALSE, "02:00:00:00:00:02")

InterfaceLists ==
    {<<>>, <<Lo>>, <<Lo, Tun>>, <<Lo, Eth1>>, <<Lo, Eth2>>, <<Lo, Tun, Eth1>>,
     <<Eth1, Eth2>>, <<Eth2, Eth1>>}

\* What /etc/machine-id may hold; on the other platforms the machine
\* identifier the platform keeps, in the same form
MachineIDs == {Absent, "mid-1\n", "mid-2\n"}

\* A machine the agent runs on
Machine(goos, machineID, hostname, interfaces) ==
    [GOOS |-> goos, GOARCH |-> "amd64", machineID |-> machineID, hostname |-> hostname,
     interfaces |-> interfaces]

Machines ==
    {Machine(g, m, h, l) : g \in {"linux", "windows", "darwin"}, m \in MachineIDs,
                           h \in {"host-1", "host-2"}, l \in InterfaceLists}

\* strings.TrimSpace on the contents of /etc/machine-id
TrimSpace(str) ==
    CASE str = "mid-1\n" -> "mid-1"
      [] str = "mid-2\n" -> "mid-2"
      [] OTHER -> str

\* strings.Join
RECURSIVE Join(_, _)
Join(elems, sep) ==
    CASE Len(elems) = 0 -> ""
      [] Len(elems) = 1 -> elems[1]
      [] OTHER -> elems[1] \o sep \o Join(Tail(elems), sep)

\* hex.EncodeToString of the SHA-256 of a string: one digest per string
Sha256Hex(str) == "sha256(" \o str \o ")"

\* identity.getMACAddress: the hardware address of the first interface
\* that is not a loopback and has one
getMACAddress(interfaces) ==
    LET usable == {i \in 1..Len(interfaces) :
                      ~interfaces[i].loopback /\ interfaces[i].hw # ""}
    IN IF usable = {}
       THEN [mac |-> "", err |-> "no MAC address found"]
       ELSE [mac |-> interfaces[CHOOSE i \in usable : \A j \in usable : i <= j].hw,
             err |-> "nil"]

\* identity.generateFingerprint: /etc/machine-id on linux when it can be
\* read, the hostname on windows, nothing elsewhere; then the hardware
\* address when there is one; an error of getMACAddress is dropped
generateFingerprint(machine) ==
    LET platform == CASE machine.GOOS = "linux" ->
                            IF machine.machineID # Absent
                            THEN <<TrimSpace(machine.machineID)>> ELSE <<>>
                      [] machine.GOOS = "windows" -> <<machine.hostname>>
                      [] OTHER -> <<>>
        mac == getMACAddress(machine.interfaces)
        components == IF mac.err = "nil" THEN Append(platform, mac.mac) ELSE platform
    IN [fp |-> Sha256Hex(Join(components, "|")), err |-> "nil"]

\* identity.Generate: a fresh random node id, the rest read from the
\* machine; Platform is runtime.GOOS
Generate(nodeId, machine) ==
    LET fp == generateFingerprint(machine)
    IN IF fp.err # "nil"
       THEN [id |-> NoIdentity, err |-> "failed to generate fingerprint: " \o fp.err]
       ELSE [id |-> [NodeID |-> nodeId, Fingerprint |-> fp.fp,
                     Hostname |-> machine.hostname, Platform |-> machine.GOOS,
                     Arch |-> machine.GOARCH],
             err |-> "nil"]

\* EnrollRequest as Client.Enroll fills it
EnrollRequest(id, token) ==
    [node_id |-> id.NodeID, fingerprint |-> id.Fingerprint, hostname |-> id.Hostname,
     platform |-> id.Platform, arch |-> id.Arch, token |-> token]

EnrollResponse(status, cert, ca, msg) ==
    [Status |-> status, Certificate |-> cert, CACert |-> ca, Message |-> msg]

NoResponse == EnrollResponse("", Empty, Empty, "")

\* What the control plane may answer on /agent/enroll.  It can put into a
\* certificate only a public key it has seen; certificate material comes
\* with "approved" only (the fields are omitempty)
EnrollResponses ==
    {EnrollResponse("approved", c, ca, "") :
        c \in {Empty, Garbage} \cup {CertPEM(k) : k \in Keys}, ca \in {Empty, CAPEM}}
    \cup {EnrollResponse(st, Empty, Empty, "") : st \in {"pending", "unknown"}}
    \cup {EnrollResponse("rejected", Empty, Empty, m) : m \in Messages}

EnrollAnswers ==
    {NetError}
    \cup {[failed |-> FALSE, code |-> 500, wellformed |-> FALSE, json |-> NoResponse]}
    \cup {[failed |-> FALSE, code |-> 200, wellformed |-> FALSE, json |-> NoResponse]}
    \cup {[failed |-> FALSE, code |-> 200, wellformed |-> TRUE, json |-> r] :
            r \in EnrollResponses}

EnrollPath == "/api/v1/agent/enroll"

\* Enroll that makes a node id of its own for every request
Enroll_FreshNodeID(c, cancelled, net) ==
    LET fresh == [c.identity EXCEPT !.NodeID = "node-" \o c.identity.NodeID]
        r == Post(c.transport, cancelled, EnrollPath, EnrollRequest(fresh, c.token), net) IN
    CASE r.err # "nil" ->
            [sent |-> r.sent, req |-> r.req, resp |-> NoResponse, err |-> "enrollment request failed"]
      [] DecodeJSON(r.resp) # "nil" ->
            [sent |-> r.sent, req |-> r.req, resp |-> NoResponse, err |-> DecodeJSON(r.resp)]
      [] OTHER -> [sent |-> r.sent, req |-> r.req, resp |-> r.resp.json, err |-> "nil"]

\* Enroll that makes its request without the caller's context
Enroll_IgnoresContext(c, cancelled, net) ==
    LET r == Post(c.transport, FALSE, EnrollPath, EnrollRequest(c.identity, c.token), net) IN
    CASE r.err # "nil" ->
            [sent |-> r.sent, req |-> r.req, resp |-> NoResponse, err |-> "enrollment request failed"]
      [] DecodeJSON(r.resp) # "nil" ->
            [sent |-> r.sent, req |-> r.req, resp |-> NoResponse, err |-> DecodeJSON(r.resp)]
      [] OTHER -> [sent |-> r.sent, req |-> r.req, resp |-> r.resp.json, err |-> "nil"]

\* Client.Enroll: one POST of the enrollment request over the client's own
\* transport, and the decoded response
Enroll(c, cancelled, net) ==
    LET r == Post(c.transport, cancelled, EnrollPath, EnrollRequest(c.identity, c.token), net) IN
    CASE r.err # "nil" ->
            [sent |-> r.sent, req |-> r.req, resp |-> NoResponse, err |-> "enrollment request failed"]
      [] DecodeJSON(r.resp) # "nil" ->
            [sent |-> r.sent, req |-> r.req, resp |-> NoResponse, err |-> DecodeJSON(r.resp)]
      [] OTHER -> [sent |-> r.sent, req |-> r.req, resp |-> r.resp.json, err |-> "nil"]

\* WaitForApproval that returns the response of the first Enroll without an
\* error, whatever its status
WaitForApprovalTick_AnyStatusReturns(e) ==
    CASE e.err # "nil" -> "continue"
      [] e.resp.Status = "rejected" -> "return rejected"
      [] OTHER -> "return approved"

\* WaitForApproval that keeps polling after "rejected"
WaitForApprovalTick_RejectedRetries(e) ==
    CASE e.err # "nil" -> "continue"
      [] e.resp.Status = "approved" -> "return approved"
      [] OTHER -> "continue"

\* WaitForApproval that gives up on the first Enroll that fails
WaitForApprovalTick_ErrorEndsWait(e) ==
    CASE e.err # "nil" -> "return rejected"
      [] e.resp.Status = "approved" -> "return approved"
      [] e.resp.Status = "rejected" -> "return rejected"
      [] OTHER -> "continue"

\* WaitForApproval that takes a status it does not know for a refusal
WaitForApprovalTick_UnknownIsTerminal(e) ==
    CASE e.err # "nil" -> "continue"
      [] e.resp.Status = "approved" -> "return approved"
      [] e.resp.Status # "pending" -> "return rejected"
      [] OTHER -> "continue"

\* One tick of Client.WaitForApproval: what the loop does with the result
\* of Enroll
WaitForApprovalTick(e) ==
    CASE e.err # "nil" -> "continue"
      [] e.resp.Status = "approved" -> "return approved"
      [] e.resp.Status = "rejected" -> "return rejected"
      [] OTHER -> "continue"

\* enroll.NewClient: the enrollment client makes a transport of its own
NewEnrollClient(backendURL, token, id) ==
    [transport |-> NewClient(backendURL), identity |-> id, token |-> token]

NoEnrollClient == NewEnrollClient("", "", NoIdentity)

\* SaveCertificates that drops the error of the CA certificate's write
SaveCertificates_CAErrorDropped(certPEM, caPEM, certPath, caPath, keyPath, privateKey, fs, outcome) ==
    LET fs1 == WriteFile(fs, certPath, certPEM, outcome[1])
        fs2 == WriteFile(fs1, caPath, caPEM, outcome[2])
        fs3 == WriteFile(fs2, keyPath, privateKey, outcome[3])
        w1 == [path |-> certPath, outcome |-> outcome[1]]
        w2 == [path |-> caPath, outcome |-> outcome[2]]
        w3 == [path |-> keyPath, outcome |-> outcome[3]]
    IN CASE outcome[1] # "ok" ->
                [fs |-> fs1, err |-> "failed to save certificate", calls |-> <<w1>>]
         [] outcome[3] # "ok" ->
                [fs |-> fs3, err |-> "failed to save private key", calls |-> <<w1, w2, w3>>]
         [] OTHER -> [fs |-> fs3, err |-> "nil", calls |-> <<w1, w2, w3>>]

\* enroll.SaveCertificates: the three writes in the order certificate, CA
\* certificate, private key, stopping at the first that fails.  outcome[i]
\* is what the file system does with the i-th write; calls are the
\* os.WriteFile calls made, each with what the file system did
SaveCertificates(certPEM, caPEM, certPath, caPath, keyPath, privateKey, fs, outcome) ==
    LET fs1 == WriteFile(fs, certPath, certPEM, outcome[1])
        fs2 == WriteFile(fs1, caPath, caPEM, outcome[2])
        fs3 == WriteFile(fs2, keyPath, privateKey, outcome[3])
        w1 == [path |-> certPath, outcome |-> outcome[1]]
        w2 == [path |-> caPath, outcome |-> outcome[2]]
        w3 == [path |-> keyPath, outcome |-> outcome[3]]
    IN CASE outcome[1] # "ok" ->
                [fs |-> fs1, err |-> "failed to save certificate", calls |-> <<w1>>]
         [] outcome[2] # "ok" ->
                [fs |-> fs2, err |-> "failed to save CA certificate", calls |-> <<w1, w2>>]
         [] outcome[3] # "ok" ->
                [fs |-> fs3, err |-> "failed to save private key", calls |-> <<w1, w2, w3>>]
         [] OTHER -> [fs |-> fs3, err |-> "nil", calls |-> <<w1, w2, w3>>]

\* The keys a newly generated key is different from: every key that already
\* exists on this host or in a certificate the control plane has issued
ExistingKeys(fs, resp) ==
    ({KeyOf(fs[p]) : p \in Paths} \cup {KeyOf(resp.Certificate)}) \ {0}

-----------------------------------------------------------------------------
(* internal/executor: actions, results, the registry and the collaborators *)

NoData == [x \in {} |-> ""]

\* An Action; Param is the string parameter its handler looks up
\* ("path", "service", "username" or "package"), "" when it is missing
Action(id, type, param) == [ID |-> id, Type |-> type, Param |-> param]

Result(actionId, success, output, error, data) ==
    [ActionID |-> actionId, Success |-> success, Output |-> output, Error |-> error,
     Data |-> data]

NoResult == Result("", FALSE, "", "", NoData)

\* runtime.GOOS of the build
Platforms == {"linux", "windows", "darwin"}

\* The builds a whole run is followed for: a platform the handlers have a
\* command for, and one they have none for
RunPlatforms == {"linux", "darwin"}

\* The machines of those builds
RunMachines == {Machine(g, "mid-1\n", "host-1", <<Lo, Eth1>>) : g \in RunPlatforms}

\* What the host does with the call a handler makes: it succeeds, it
\* returns an error, or it returns an error and a nil value with it
OSOutcomes == {"ok", "fail", "nil"}

\* The host a handler runs on: the platform and what the call will do
Hosts(goos) == {[GOOS |-> goos, outcome |-> o] : o \in OSOutcomes}

\* A call of a collaborator's Execute either returns a Result or panics
\* (a nil pointer is dereferenced) and returns nothing
Returned(fs, r) == [fs |-> fs, result |-> r, panicked |-> FALSE]
Panicked(fs) == [fs |-> fs, result |-> NoResult, panicked |-> TRUE]

SupportedActions(exec) ==
    CASE exec = "service" ->
            {"service_list", "service_start", "service_stop", "service_restart",
             "service_reload", "service_enable", "service_disable", "service_status"}
      [] exec = "system" -> {"system_info", "system_metrics", "process_list"}
      [] exec = "user" -> {"user_list", "user_add", "user_delete", "group_list"}
      [] exec = "file" ->
            {"file_list", "file_read", "file_write", "file_delete", "file_chmod",
             "file_chown", "dir_create"}
      [] exec = "package" -> {"package_list", "package_install", "package_update"}
      [] exec = "probe" -> {"system_info", "file_read", "probe_ping"}
      [] OTHER -> {}

\* A handler that runs one command and reports its exit.  cmd is assigned
\* on linux and on windows only, and cmd.CombinedOutput() on the nil cmd of
\* any other platform dereferences a nil pointer
RunCommand(action, fs, os, what) ==
    CASE os.GOOS \notin {"linux", "windows"} -> Panicked(fs)
      [] os.outcome = "ok" -> Returned(fs, Result(action.ID, TRUE, "output", "", NoData))
      [] OTHER -> Returned(fs, Result(action.ID, FALSE, "output", what, NoData))

\* A handler that needs its parameter first
WithParam(action, fs, os, what) ==
    IF action.Param = ""
    THEN Returned(fs, Result(action.ID, FALSE, "", "missing parameter", NoData))
    ELSE RunCommand(action, fs, os, what)

\* service.Executor.listServices: the only handler with a branch for the
\* other platforms
listServices(action, fs, os) ==
    IF os.GOOS \notin {"linux", "windows"}
    THEN Returned(fs, Result(action.ID, FALSE, "", "unsupported platform", NoData))
    ELSE RunCommand(action, fs, os, "failed to list services")

\* service.Executor.controlService
controlService(action, fs, os) ==
    CASE action.Param = "" ->
            Returned(fs, Result(action.ID, FALSE, "", "missing parameter", NoData))
      [] os.GOOS = "windows" /\ action.Type = "service_reload" ->
            Returned(fs, Result(action.ID, FALSE, "", "unsupported action on Windows", NoData))
      [] OTHER -> RunCommand(action, fs, os, "command failed")

\* getStatus that reports the command's exit in Error and still succeeds
getStatus_ErrorWithSuccess(action, fs, os) ==
    CASE action.Param = "" ->
            Returned(fs, Result(action.ID, FALSE, "", "missing parameter", NoData))
      [] os.GOOS \notin {"linux", "windows"} -> Panicked(fs)
      [] os.outcome # "ok" ->
            Returned(fs, Result(action.ID, TRUE, "output", "command failed", NoData))
      [] OTHER -> Returned(fs, Result(action.ID, TRUE, "output", "", NoData))

\* service.Executor.getStatus: success whatever the command's exit
getStatus(action, fs, os) ==
    CASE action.Param = "" ->
            Returned(fs, Result(action.ID, FALSE, "", "missing parameter", NoData))
      [] os.GOOS \notin {"linux", "windows"} -> Panicked(fs)
      [] OTHER -> Returned(fs, Result(action.ID, TRUE, "output", "", NoData))

ServiceExecute(action, fs, os) ==
    CASE action.Type = "service_list" -> listServices(action, fs, os)
      [] action.Type \in {"service_start", "service_stop", "service_restart",
                          "service_reload"} -> controlService(action, fs, os)
      [] action.Type \in {"service_enable", "service_disable"} ->
            WithParam(action, fs, os, "command failed")
      [] action.Type = "service_status" -> getStatus(action, fs, os)
      [] OTHER -> Returned(fs, Result(action.ID, FALSE, "", "unknown service action", NoData))

\* system.Executor.getSystemInfo and getMetrics drop the errors of the
\* calls they make and use the values: a nil value is dereferenced
getSystemInfo(action, fs, os) ==
    IF os.outcome = "nil"
    THEN Panicked(fs)
    ELSE Returned(fs, Result(action.ID, TRUE, "", "", [hostname |-> "host-1"]))

getMetrics(action, fs, os) ==
    IF os.outcome = "nil"
    THEN Panicked(fs)
    ELSE Returned(fs, Result(action.ID, TRUE, "", "", [cpu_percent |-> "7"]))

\* system.Executor.Execute that leaves ActionID out of the Result it makes
SystemExecute_NoActionID(action, fs, os) ==
    LET anon == [action EXCEPT !.ID = ""] IN
    CASE action.Type = "system_info" -> getSystemInfo(anon, fs, os)
      [] action.Type = "system_metrics" -> getMetrics(anon, fs, os)
      [] action.Type = "process_list" -> RunCommand(anon, fs, os, "failed to get processes")
      [] OTHER -> Returned(fs, Result("", FALSE, "", "unknown system action", NoData))

SystemExecute(action, fs, os) ==
    CASE action.Type = "system_info" -> getSystemInfo(action, fs, os)
      [] action.Type = "system_metrics" -> getMetrics(action, fs, os)
      [] action.Type = "process_list" -> RunCommand(action, fs, os, "failed to get processes")
      [] OTHER -> Returned(fs, Result(action.ID, FALSE, "", "unknown system action", NoData))

UserExecute(action, fs, os) ==
    CASE action.Type \in {"user_list", "group_list"} -> RunCommand(action, fs, os, "failed to list")
      [] action.Type \in {"user_add", "user_delete"} -> WithParam(action, fs, os, "command failed")
      [] OTHER -> Returned(fs, Result(action.ID, FALSE, "", "unknown user action", NoData))

\* file.Executor.listFiles: a missing path means "/"; os.ReadDir, then
\* entry.Info() of every entry with its error dropped
listFiles(action, fs, os) ==
    CASE os.outcome = "fail" ->
            Returned(fs, Result(action.ID, FALSE, "", "failed to read directory", NoData))
      [] os.outcome = "nil" -> Panicked(fs)
      [] OTHER -> Returned(fs, Result(action.ID, TRUE, "", "", [files |-> "entries"]))

\* file.Executor.readFile: os.Stat, then os.ReadFile of the whole file; the
\* content goes into the result's data
readFile(action, fs) ==
    CASE action.Param = "" -> Result(action.ID, FALSE, "", "missing 'path' parameter", NoData)
      [] action.Param \notin Paths -> Result(action.ID, FALSE, "", "file not found", NoData)
      [] ~fileExists(fs, action.Param) -> Result(action.ID, FALSE, "", "file not found", NoData)
      [] ~CanRead(fs, action.Param) -> Result(action.ID, FALSE, "", "failed to read file", NoData)
      [] OTHER -> Result(action.ID, TRUE, "", "", [content |-> fs[action.Param]])

\* file.Executor.deleteFile: os.Remove
deleteFile(action, fs) ==
    CASE action.Param = "" ->
            [fs |-> fs, result |-> Result(action.ID, FALSE, "", "missing 'path' parameter", NoData)]
      [] action.Param \notin Paths \/ ~fileExists(fs, action.Param) ->
            [fs |-> fs, result |-> Result(action.ID, FALSE, "", "failed to delete file", NoData)]
      [] OTHER ->
            [fs |-> [fs EXCEPT ![action.Param] = Absent],
             result |-> Result(action.ID, TRUE, "", "", NoData)]

\* file.Executor.chmod
chmod(action, fs, os) ==
    CASE os.GOOS # "linux" ->
            Returned(fs, Result(action.ID, FALSE, "", "chmod only supported on Linux", NoData))
      [] action.Param = "" ->
            Returned(fs, Result(action.ID, FALSE, "", "missing parameter", NoData))
      [] os.outcome = "ok" -> Returned(fs, Result(action.ID, TRUE, "output", "", NoData))
      [] OTHER -> Returned(fs, Result(action.ID, FALSE, "output", "chmod failed", NoData))

\* file.Executor.createDir
createDir(action, fs, os) ==
    CASE action.Param = "" ->
            Returned(fs, Result(action.ID, FALSE, "", "missing 'path' parameter", NoData))
      [] os.outcome = "ok" -> Returned(fs, Result(action.ID, TRUE, "", "", NoData))
      [] OTHER -> Returned(fs, Result(action.ID, FALSE, "", "failed to create directory", NoData))

FileExecute(action, fs, os) ==
    CASE action.Type = "file_list" -> listFiles(action, fs, os)
      [] action.Type = "file_read" -> Returned(fs, readFile(action, fs))
      [] action.Type = "file_delete" ->
            Returned(deleteFile(action, fs).fs, deleteFile(action, fs).result)
      [] action.Type = "file_chmod" -> chmod(action, fs, os)
      [] action.Type = "dir_create" -> createDir(action, fs, os)
      [] OTHER -> Returned(fs, Result(action.ID, FALSE, "", "unknown file action", NoData))

PackageExecute(action, fs, os) ==
    CASE action.Type = "package_list" -> RunCommand(action, fs, os, "failed to list packages")
      [] action.Type = "package_install" ->
            WithParam(action, fs, os, "failed to install package")
      [] OTHER -> Returned(fs, Result(action.ID, FALSE, "", "unknown package action", NoData))

\* An Executor of some other package, written against the interface: it
\* declares kinds of its own and kinds the agent's executors declare too
ProbeExecute(action, fs, os) ==
    Returned(fs, Result(action.ID, TRUE, "probe", "", NoData))

\* The collaborators' Execute, by executor
ExecutorExecute(exec, action, fs, os) ==
    CASE exec = "service" -> ServiceExecute(action, fs, os)
      [] exec = "system" -> SystemExecute(action, fs, os)
      [] exec = "user" -> UserExecute(action, fs, os)
      [] exec = "file" -> FileExecute(action, fs, os)
      [] exec = "package" -> PackageExecute(action, fs, os)
      [] OTHER -> ProbeExecute(action, fs, os)

\* executor.NewRegistry: the empty mapping
NewRegistry == [k \in {} |-> ""]

\* Register that keeps the executor a kind already maps to
Register_KeepsEarlier(r, exec) ==
    [k \in DOMAIN r \cup SupportedActions(exec) |->
        IF k \in DOMAIN r THEN r[k] ELSE exec]

\* Registry.Register
Register(r, exec) ==
    [k \in DOMAIN r \cup SupportedActions(exec) |->
        IF k \in SupportedActions(exec) THEN exec ELSE r[k]]

\* Execute that hands a kind nobody registered to the system executor
Execute_DefaultsToSystem(r, action, fs, os) ==
    LET exec == IF action.Type \in DOMAIN r THEN r[action.Type] ELSE "system"
        x == ExecutorExecute(exec, action, fs, os)
    IN [fs |-> x.fs, result |-> x.result, panicked |-> x.panicked, invoked |-> exec]

\* Registry.Execute: the Result (or the panic) of the collaborator the
\* action's type maps to, and which collaborator was invoked ("" for none)
Execute(r, action, fs, os) ==
    IF action.Type \notin DOMAIN r
    THEN [fs |-> fs,
          result |-> Result(action.ID, FALSE, "", "unsupported action type: " \o action.Type,
                            NoData),
          panicked |-> FALSE,
          invoked |-> ""]
    ELSE LET x == ExecutorExecute(r[action.Type], action, fs, os)
         IN [fs |-> x.fs, result |-> x.result, panicked |-> x.panicked,
             invoked |-> r[action.Type]]

-----------------------------------------------------------------------------
(* The state of one process run *)

VARIABLES
    pc,              \* where main() is (the task loop runs on main's goroutine)
    hb,              \* where the heartbeat goroutine is
    mc,              \* where the metric collector goroutine is
    cancelled,       \* ctx: whether cancel() has been called
    files,           \* the file system at the three credential paths
    token,           \* cfg.EnrollToken, drawn where main first reads it
    id,              \* the identity of this run
    enrolled,        \* main's local of that name
    enrollClient,    \* the enroll.Client
    resp,            \* the response WaitForApproval returned
    privateKey,      \* the key GenerateCSR returned ("" before)
    transportClient, \* the transport.Client of the runtime
    registry,        \* the executor.Registry
    tasks,           \* task loop: the actions of the batch not yet reported
    result,          \* task loop: the result of the action just executed
    metrics,         \* collector: the result of the dispatch just made
    lastReq,         \* the request most recently put on the wire
    enrollReqs,      \* how many enrollment requests have gone on the wire
    statuses,        \* what WaitForApproval saw on each tick that sent a request
    decoded,         \* the enrollment response Enroll decoded last
    keyGens,         \* how many times a key pair has been generated
    writes,          \* the os.WriteFile calls made, in order, with their outcomes
    enrolledCount,   \* how many times "Enrollment completed successfully" was logged
    fatal,           \* the message of the logger.Fatal that ended the run
    ncalls,          \* harness: calls made
    lastCall,        \* harness: the last call, its argument, its error, and the
                     \* status code of the response it returned (0 for none)
    batch,           \* task loop: the batch the last poll decoded
    events           \* task loop: the dispatches and posts made for that batch
                     \* (registry harness: the registrations made; identity
                     \* harness: the calls of Generate made)

vars == <<pc, hb, mc, cancelled, files, token, id, enrolled, enrollClient, resp,
          privateKey, transportClient, registry, tasks, result, metrics, lastReq,
          enrollReqs, statuses, decoded, keyGens, writes, enrolledCount, fatal, ncalls, lastCall,
          batch, events>>

envVars == <<token, ncalls, lastCall>>
enrollVars == <<enrollClient, resp, privateKey, enrollReqs, statuses, decoded, keyGens,
               writes, enrolledCount>>
loopVars == <<hb, mc, tasks, result, metrics, batch, events>>

NoCall == [op |-> "", arg |-> "", err |-> "", code |-> 0]
NoFatal == [msg |-> "", err |-> "", arg |-> ""]

\* What may be at the credential paths when the process starts.  The key
\* pairs are interchangeable: a key on disk is key 1, and the certificate
\* is for it or for another key
InitKeys == 1..MaxInitKey

InitFiles ==
    {[p \in Paths |-> CASE p = CertPath -> c [] p = KeyPath -> k [] OTHER -> ca] :
        c \in {Absent, Unreadable, Garbage} \cup {CertPEM(i) : i \in InitKeys},
        k \in {Absent, Unreadable, Garbage, KeyPEM(1)},
        ca \in {Absent, Unreadable, Garbage, CAPEM}}

Init ==
    /\ pc = "start"
    /\ hb = "off"
    /\ mc = "off"
    /\ cancelled = FALSE
    /\ files \in InitFiles
    /\ token = ""
    /\ id = NoIdentity
    /\ enrolled = FALSE
    /\ enrollClient = NoEnrollClient
    /\ resp = NoResponse
    /\ privateKey = ""
    /\ transportClient = NewClient("")
    /\ registry = NewRegistry
    /\ tasks = <<>>
    /\ result = NoResult
    /\ metrics = NoResult
    /\ lastReq = NoRequest
    /\ enrollReqs = 0
    /\ statuses = <<>>
    /\ decoded = NoResponse
    /\ keyGens = 0
    /\ writes = <<>>
    /\ enrolledCount = 0
    /\ fatal = NoFatal
    /\ ncalls = 0
    /\ lastCall = NoCall
    /\ batch = <<>>
    /\ events = <<>>

Alive ==
    pc \notin {"exit", "fatal", "panic", "harness", "registry_harness", "registry_done",
               "identity_harness"}

\* logger.Fatal: the message is logged and the process exits at once, with
\* every goroutine
FatalErr(msg, err, arg) ==
    /\ pc' = "fatal"
    /\ fatal' = [msg |-> msg, err |-> err, arg |-> arg]

Fatal(msg) == FatalErr(msg, "", "")

-----------------------------------------------------------------------------
(* main(), up to the start of the loops *)

\* MainStart that goes through enrollment whatever files it found
MainStart_AlwaysEnrolls ==
    /\ pc = "start"
    /\ \E n \in NodeIds, machine \in RunMachines : id' = Generate(n, machine).id
    /\ enrolled' = (fileExists(files, CertPath) /\ fileExists(files, KeyPath))
    /\ pc' = "enroll"
    /\ UNCHANGED <<cancelled, files, transportClient, registry, lastReq, fatal>>
    /\ UNCHANGED <<envVars, enrollVars, loopVars>>

\* main.go 47-75: the identity, the enrolled check, the context and the
\* signal handler
MainStart ==
    /\ pc = "start"
    /\ \E n \in NodeIds, machine \in RunMachines :
         LET g == Generate(n, machine)
         IN IF g.err # "nil"
            THEN /\ FatalErr("Failed to generate identity", g.err, "")
                 /\ UNCHANGED <<id, enrolled>>
            ELSE /\ id' = g.id
                 /\ enrolled' = (fileExists(files, CertPath) /\ fileExists(files, KeyPath))
                 /\ pc' = IF enrolled' THEN "mtls" ELSE "enroll"
                 /\ UNCHANGED fatal
    /\ UNCHANGED <<cancelled, files, transportClient, registry, lastReq>>
    /\ UNCHANGED <<envVars, enrollVars, loopVars>>

\* The signal handler goroutine: a signal arrives and cancel() is called
Cancel ==
    /\ Alive
    /\ pc # "start"
    /\ ~cancelled
    /\ cancelled' = TRUE
    /\ UNCHANGED <<pc, files, id, enrolled, transportClient, registry, lastReq, fatal>>
    /\ UNCHANGED <<envVars, enrollVars, loopVars>>

\* main.go 78-85
MainNewEnrollClient_NoTokenCheck ==
    /\ pc = "enroll"
    /\ token' \in Tokens
    /\ enrollClient' = NewEnrollClient(BackendURL, token', id)
    /\ pc' = "wait"
    /\ UNCHANGED <<cancelled, files, id, enrolled, transportClient, registry, lastReq, fatal>>
    /\ UNCHANGED <<resp, privateKey, enrollReqs, statuses, decoded, keyGens, writes,
                   enrolledCount>>
    /\ UNCHANGED <<ncalls, lastCall, loopVars>>

MainNewEnrollClient ==
    /\ pc = "enroll"
    /\ token' \in Tokens
    /\ IF token' = ""
       THEN /\ Fatal("EINFRA_ENROLL_TOKEN not set")
            /\ UNCHANGED enrollClient
       ELSE /\ enrollClient' = NewEnrollClient(BackendURL, token', id)
            /\ pc' = "wait"
            /\ UNCHANGED fatal
    /\ UNCHANGED <<cancelled, files, id, enrolled, transportClient, registry, lastReq>>
    /\ UNCHANGED <<resp, privateKey, enrollReqs, statuses, decoded, keyGens, writes,
                   enrolledCount>>
    /\ UNCHANGED <<ncalls, lastCall, loopVars>>

\* WaitForApproval's select takes ctx.Done(): it returns ctx.Err() and main
\* ends the run (main.go 89-91)
WaitCancelled ==
    /\ pc = "wait"
    /\ cancelled
    /\ FatalErr("Enrollment failed", "context canceled", "")
    /\ UNCHANGED <<cancelled, files, id, enrolled, transportClient, registry, lastReq>>
    /\ UNCHANGED <<envVars, enrollVars, loopVars>>

\* WaitForApproval's select takes the ticker: one Enroll, and what the loop
\* does with its result.  A select with both channels ready takes either
WaitTick ==
    /\ pc = "wait"
    /\ enrollReqs < MaxPolls
    /\ \E net \in EnrollAnswers :
         LET e == Enroll(enrollClient, cancelled, net)
             next == WaitForApprovalTick(e)
         IN /\ lastReq' = IF e.sent THEN e.req ELSE lastReq
            /\ enrollReqs' = IF e.sent THEN enrollReqs + 1 ELSE enrollReqs
            /\ decoded' = IF e.err = "nil" THEN e.resp ELSE decoded
            /\ statuses' = IF e.sent
                           THEN Append(statuses, IF e.err # "nil" THEN "error" ELSE e.resp.Status)
                           ELSE statuses
            /\ CASE next = "return approved" ->
                      /\ resp' = e.resp
                      /\ pc' = "gen_csr"
                      /\ UNCHANGED fatal
                 [] next = "return rejected" ->
                      /\ FatalErr("Enrollment failed", "enrollment rejected: %s", e.resp.Message)
                      /\ UNCHANGED resp
                 [] OTHER -> UNCHANGED <<pc, resp, fatal>>
    /\ UNCHANGED <<cancelled, files, id, enrolled, transportClient, registry>>
    /\ UNCHANGED <<enrollClient, privateKey, keyGens, writes, enrolledCount>>
    /\ UNCHANGED <<envVars, loopVars>>

\* enroll.GenerateCSR (main.go 94-97): rsa.GenerateKey gives a key that did
\* not exist before, or fails; the certificate request made from it is
\* dropped by the caller
GenerateCSR(fs, r) == {KeyPEM(k) : k \in Keys \ ExistingKeys(fs, r)}

MainGenerateCSR ==
    /\ pc = "gen_csr"
    /\ \/ /\ \E key \in GenerateCSR(files, resp) : privateKey' = key
          /\ keyGens' = keyGens + 1
          /\ pc' = "save"
          /\ UNCHANGED fatal
       \/ /\ Fatal("Failed to generate CSR")
          /\ UNCHANGED <<privateKey, keyGens>>
    /\ UNCHANGED <<cancelled, files, id, enrolled, transportClient, registry, lastReq>>
    /\ UNCHANGED <<enrollClient, resp, enrollReqs, statuses, decoded, writes, enrolledCount>>
    /\ UNCHANGED <<envVars, loopVars>>

\* main.go 99-103
MainSaveCertificates ==
    /\ pc = "save"
    /\ \E outcome \in [1..3 -> WriteOutcomes] :
         LET s == SaveCertificates(resp.Certificate, resp.CACert, CertPath, CACertPath,
                                   KeyPath, privateKey, files, outcome)
         IN /\ files' = s.fs
            /\ writes' = writes \o s.calls
            /\ IF s.err # "nil"
               THEN /\ Fatal("Failed to save certificates")
                    /\ UNCHANGED enrolledCount
               ELSE /\ enrolledCount' = enrolledCount + 1
                    /\ pc' = "mtls"
                    /\ UNCHANGED fatal
    /\ UNCHANGED <<cancelled, id, enrolled, transportClient, registry, lastReq>>
    /\ UNCHANGED <<enrollClient, resp, privateKey, enrollReqs, statuses, decoded, keyGens>>
    /\ UNCHANGED <<envVars, loopVars>>

\* main.go 107-112
MainEnableMTLS ==
    /\ pc = "mtls"
    /\ LET r == EnableMTLS(NewClient(BackendURL), files, CertPath, KeyPath, CACertPath)
       IN /\ transportClient' = r.c
          /\ IF r.err # "nil"
             THEN Fatal("Failed to enable mTLS")
             ELSE /\ pc' = "registry"
                  /\ UNCHANGED fatal
    /\ UNCHANGED <<cancelled, files, id, enrolled, registry, lastReq>>
    /\ UNCHANGED <<envVars, enrollVars, loopVars>>

\* main.go 115-122
MainRegister ==
    /\ pc = "registry"
    /\ registry' = Register(Register(Register(Register(Register(NewRegistry,
                        "service"), "system"), "user"), "file"), "package")
    /\ pc' = "start_loops"
    /\ UNCHANGED <<cancelled, files, id, enrolled, transportClient, lastReq, fatal>>
    /\ UNCHANGED <<envVars, enrollVars, loopVars>>

\* main.go 125-132: the two goroutines are started and main enters taskLoop
MainStartLoops ==
    /\ pc = "start_loops"
    /\ mc' = "select"
    /\ hb' = "select"
    /\ pc' = "tl_select"
    /\ UNCHANGED <<cancelled, files, id, enrolled, transportClient, registry, lastReq, fatal>>
    /\ UNCHANGED <<tasks, result, metrics, batch, events>>
    /\ UNCHANGED <<envVars, enrollVars>>

-----------------------------------------------------------------------------
(* The loops.  Each select may take the ticker whenever it is ready, and   *)
(* ctx.Done() once the context is cancelled; with both ready it takes      *)
(* either.                                                                 *)

HeartbeatPath == "/api/v1/agent/heartbeat"
MetricsPath == "/api/v1/agent/metrics"
PollPath == "/api/v1/agent/tasks/poll"
ResultPath(taskId) == "/api/v1/agent/tasks/" \o taskId \o "/result"

\* What the control plane may answer where the agent reads no body
PlainAnswers ==
    {NetError} \cup {[failed |-> FALSE, code |-> c, wellformed |-> TRUE] : c \in StatusCodes}

\* The actions the control plane may hand out
ActionPool ==
    {Action("a1", "file_read", KeyPath),
     Action("a2", "process_list", ""),
     Action("a3", "reboot", ""),
     Action("a4", "service_status", "nginx"),
     Action("a5", "system_metrics", "")}

RECURSIVE SeqsUpTo(_, _)
SeqsUpTo(S, n) ==
    IF n = 0 THEN {<<>>}
    ELSE LET shorter == SeqsUpTo(S, n - 1)
         IN shorter \cup {Append(q, x) : q \in shorter, x \in S}

\* A batch: the control plane hands each action out once
Batches ==
    {q \in SeqsUpTo(ActionPool, MaxBatch) : \A i, j \in 1..Len(q) : q[i] = q[j] => i = j}

PollAnswers ==
    {NetError}
    \cup {[failed |-> FALSE, code |-> 500, wellformed |-> FALSE, json |-> <<>>]}
    \cup {[failed |-> FALSE, code |-> 200, wellformed |-> FALSE, json |-> <<>>]}
    \cup {[failed |-> FALSE, code |-> 200, wellformed |-> TRUE, json |-> b] : b \in Batches}

\* The JSON of a Result (omitempty fields included when set)
ResultBody(r) ==
    [action_id |-> r.ActionID, success |-> IF r.Success THEN "true" ELSE "false",
     output |-> r.Output, error |-> r.Error,
     data |-> IF "content" \in DOMAIN r.Data THEN r.Data.content ELSE ""]

HeartbeatBody(i) == [node_id |-> i.NodeID, hostname |-> i.Hostname, status |-> "online"]

\* A panic that nothing recovers ends the process, whichever goroutine
\* it is raised on
Panic == pc' = "panic"

\* heartbeatLoop (main.go 138-163)
HeartbeatDone ==
    /\ Alive /\ hb = "select" /\ cancelled
    /\ hb' = "done"
    /\ UNCHANGED <<pc, mc, cancelled, files, id, enrolled, transportClient, registry, lastReq, fatal>>
    /\ UNCHANGED <<tasks, result, metrics, batch, events>>
    /\ UNCHANGED <<envVars, enrollVars>>

\* HeartbeatTick that waits while the task loop is in a batch
HeartbeatTick_WaitsForBatch ==
    /\ Alive /\ hb = "select"
    /\ pc \notin {"tl_exec", "tl_post"}
    /\ hb' = "tick"
    /\ UNCHANGED <<pc, mc, cancelled, files, id, enrolled, transportClient, registry, lastReq, fatal>>
    /\ UNCHANGED <<tasks, result, metrics, batch, events>>
    /\ UNCHANGED <<envVars, enrollVars>>

\* The heartbeat ticker fires and the select takes it
HeartbeatTick ==
    /\ Alive /\ hb = "select"
    /\ hb' = "tick"
    /\ UNCHANGED <<pc, mc, cancelled, files, id, enrolled, transportClient, registry, lastReq, fatal>>
    /\ UNCHANGED <<tasks, result, metrics, batch, events>>
    /\ UNCHANGED <<envVars, enrollVars>>

\* What a call of a loop returned, as the loop logs it: the call, its
\* path or action type, its error and the status code of its response
Returns(op, arg, err, code) == [op |-> op, arg |-> arg, err |-> err, code |-> code]

\* A heartbeat tick that posts again at once when the Post failed
HeartbeatPostStep_RetriesOnFailure(net) ==
    /\ Alive /\ hb = "tick"
    /\ LET r == Post(transportClient, cancelled, HeartbeatPath, HeartbeatBody(id), net)
       IN /\ lastReq' = IF r.sent THEN r.req ELSE lastReq
          /\ hb' = IF r.err # "nil" THEN "tick" ELSE "select"
    /\ UNCHANGED <<pc, mc, cancelled, files, id, enrolled, transportClient, registry, fatal>>
    /\ UNCHANGED <<tasks, result, metrics, batch, events>>
    /\ UNCHANGED <<token, ncalls, enrollVars>>

\* The body of a heartbeat tick (main.go 148-160): one Post, and back to the
\* select whatever it returned.  net is the control plane's answer
HeartbeatPostStep(net) ==
    /\ Alive /\ hb = "tick"
    /\ LET r == Post(transportClient, cancelled, HeartbeatPath, HeartbeatBody(id), net)
       IN lastReq' = IF r.sent THEN r.req ELSE lastReq
    /\ hb' = "select"
    /\ UNCHANGED <<pc, mc, cancelled, files, id, enrolled, transportClient, registry, fatal>>
    /\ UNCHANGED <<tasks, result, metrics, batch, events>>
    /\ UNCHANGED <<token, ncalls, enrollVars>>

HeartbeatPost ==
    \E net \in PlainAnswers : HeartbeatPostStep(net) /\ UNCHANGED lastCall

\* The same step, with what the Post returned kept in lastCall
ObservedHeartbeatPost ==
    \E net \in PlainAnswers :
       LET r == Post(transportClient, cancelled, HeartbeatPath, HeartbeatBody(id), net)
       IN /\ HeartbeatPostStep(net)
          /\ lastCall' = Returns("Post", HeartbeatPath, r.err, r.resp.code)

\* Collector.Start and Collector.collect
CollectorDone ==
    /\ Alive /\ mc = "select" /\ cancelled
    /\ mc' = "done"
    /\ UNCHANGED <<pc, hb, cancelled, files, id, enrolled, transportClient, registry, lastReq, fatal>>
    /\ UNCHANGED <<tasks, result, metrics, batch, events>>
    /\ UNCHANGED <<envVars, enrollVars>>

CollectorTick ==
    /\ Alive /\ mc = "select"
    /\ mc' = "collect"
    /\ UNCHANGED <<pc, hb, cancelled, files, id, enrolled, transportClient, registry, lastReq, fatal>>
    /\ UNCHANGED <<tasks, result, metrics, batch, events>>
    /\ UNCHANGED <<envVars, enrollVars>>

\* The action Collector.collect makes up for every tick
MetricAction == Action("metric", "system_metrics", "")

\* collect that pushes the data of a Result without success too
CollectorExecuteStep_PushesFailure(os) ==
    /\ Alive /\ mc = "collect"
    /\ LET x == Execute(registry, MetricAction, files, os)
       IN /\ files' = x.fs
          /\ IF x.panicked
             THEN /\ Panic
                  /\ UNCHANGED <<mc, metrics>>
             ELSE /\ metrics' = x.result
                  /\ mc' = "push"
                  /\ UNCHANGED pc
    /\ UNCHANGED <<hb, cancelled, id, enrolled, transportClient, registry, lastReq, fatal>>
    /\ UNCHANGED <<tasks, result, batch, events>>
    /\ UNCHANGED <<token, ncalls, enrollVars>>

\* Collector.collect up to its first return (part_000 47-60): the dispatch
\* of the action; a Result without success ends the tick.  os is what the
\* host does with the calls of the handler
CollectorExecuteStep(os) ==
    /\ Alive /\ mc = "collect"
    /\ LET x == Execute(registry, MetricAction, files, os)
       IN /\ files' = x.fs
          /\ CASE x.panicked ->
                    /\ Panic
                    /\ UNCHANGED <<mc, metrics>>
               [] ~x.panicked /\ x.result.Success ->
                    /\ metrics' = x.result
                    /\ mc' = "push"
                    /\ UNCHANGED pc
               [] OTHER ->
                    /\ metrics' = NoResult
                    /\ mc' = "select"
                    /\ UNCHANGED pc
    /\ UNCHANGED <<hb, cancelled, id, enrolled, transportClient, registry, lastReq, fatal>>
    /\ UNCHANGED <<tasks, result, batch, events>>
    /\ UNCHANGED <<token, ncalls, enrollVars>>

CollectorExecute ==
    \E os \in Hosts(id.Platform) : CollectorExecuteStep(os) /\ UNCHANGED lastCall

\* The same step, with what the dispatch returned kept in lastCall (a
\* dispatch that panics returns nothing)
ObservedCollectorExecute ==
    \E os \in Hosts(id.Platform) :
       LET x == Execute(registry, MetricAction, files, os)
       IN /\ CollectorExecuteStep(os)
          /\ lastCall' = IF x.panicked THEN lastCall
                         ELSE Returns("Execute", MetricAction.Type,
                                      IF x.result.Success THEN "nil" ELSE x.result.Error, 0)

\* The rest of Collector.collect (part_000 62-71): the Post of the
\* Result's data, and back to the select whatever it returned
CollectorPushStep(net) ==
    /\ Alive /\ mc = "push"
    /\ LET r == Post(transportClient, cancelled, MetricsPath, metrics.Data, net)
       IN lastReq' = IF r.sent THEN r.req ELSE lastReq
    /\ mc' = "select"
    /\ metrics' = NoResult
    /\ UNCHANGED <<pc, hb, cancelled, files, id, enrolled, transportClient, registry, fatal>>
    /\ UNCHANGED <<tasks, result, batch, events>>
    /\ UNCHANGED <<token, ncalls, enrollVars>>

CollectorPush ==
    \E net \in PlainAnswers : CollectorPushStep(net) /\ UNCHANGED lastCall

\* The same step, with what the Post returned kept in lastCall
ObservedCollectorPush ==
    \E net \in PlainAnswers :
       LET r == Post(transportClient, cancelled, MetricsPath, metrics.Data, net)
       IN /\ CollectorPushStep(net)
          /\ lastCall' = Returns("Post", MetricsPath, r.err, r.resp.code)

\* TaskDone whose break leaves the select and not the loop
TaskDone_BreaksSelectOnly ==
    /\ pc = "tl_select" /\ cancelled
    /\ pc' = "tl_select"
    /\ UNCHANGED <<hb, mc, cancelled, files, id, enrolled, transportClient, registry, lastReq, fatal>>
    /\ UNCHANGED <<tasks, result, metrics, batch, events>>
    /\ UNCHANGED <<envVars, enrollVars>>

\* taskLoop (main.go 166-215), and main's return after it
TaskDone ==
    /\ pc = "tl_select" /\ cancelled
    /\ pc' = "exit"
    /\ UNCHANGED <<hb, mc, cancelled, files, id, enrolled, transportClient, registry, lastReq, fatal>>
    /\ UNCHANGED <<tasks, result, metrics, batch, events>>
    /\ UNCHANGED <<envVars, enrollVars>>

TaskTick ==
    /\ pc = "tl_select"
    /\ pc' = "tl_poll"
    /\ UNCHANGED <<hb, mc, cancelled, files, id, enrolled, transportClient, registry, lastReq, fatal>>
    /\ UNCHANGED <<tasks, result, metrics, batch, events>>
    /\ UNCHANGED <<envVars, enrollVars>>

\* What one poll returned to the loop: the error of the Get, or else the
\* error of the decoding
PollError(r) == IF r.err # "nil" THEN r.err ELSE DecodeJSON(r.resp)

\* A poll that keeps the batch it had when it fails
TaskPollStep_KeepsBatchOnError(net) ==
    /\ pc = "tl_poll"
    /\ LET r == Get(transportClient, cancelled, PollPath, net)
           ok == PollError(r) = "nil"
       IN /\ lastReq' = IF r.sent THEN r.req ELSE lastReq
          /\ tasks' = IF ok THEN r.resp.json ELSE batch
          /\ batch' = IF ok THEN r.resp.json ELSE batch
          /\ pc' = IF tasks' # <<>> THEN "tl_exec" ELSE "tl_select"
    /\ events' = <<>>
    /\ UNCHANGED <<hb, mc, cancelled, files, id, enrolled, transportClient, registry, fatal>>
    /\ UNCHANGED <<result, metrics>>
    /\ UNCHANGED <<token, ncalls, enrollVars>>

\* One poll (main.go 178-188): the batch decoded from the answer, and
\* nothing on an error of the call or of the decoding.  net is the control
\* plane's answer
TaskPollStep(net) ==
    /\ pc = "tl_poll"
    /\ LET r == Get(transportClient, cancelled, PollPath, net)
           ok == PollError(r) = "nil"
       IN /\ lastReq' = IF r.sent THEN r.req ELSE lastReq
          /\ tasks' = IF ok THEN r.resp.json ELSE <<>>
          /\ batch' = IF ok THEN r.resp.json ELSE <<>>
          /\ pc' = IF ok /\ r.resp.json # <<>> THEN "tl_exec" ELSE "tl_select"
    /\ events' = <<>>
    /\ UNCHANGED <<hb, mc, cancelled, files, id, enrolled, transportClient, registry, fatal>>
    /\ UNCHANGED <<result, metrics>>
    /\ UNCHANGED <<token, ncalls, enrollVars>>

TaskPoll ==
    \E net \in PollAnswers : TaskPollStep(net) /\ UNCHANGED lastCall

\* The same step, with what the poll returned kept in lastCall
ObservedTaskPoll ==
    \E net \in PollAnswers :
       LET r == Get(transportClient, cancelled, PollPath, net)
       IN /\ TaskPollStep(net)
          /\ lastCall' = Returns("Get", PollPath, PollError(r), r.resp.code)

\* The position in the batch of the action the loop is at
Index == Len(batch) - Len(tasks) + 1

\* One entry of events: a dispatch that returned ("exec") or did not
\* ("panic"), or the post of a result ("post"); the action it was for, the
\* result's id and success, and the collaborator that was invoked
Event(op, idx, action, x) ==
    [op |-> op, idx |-> idx, id |-> action.ID, type |-> action.Type,
     rid |-> x.result.ActionID, success |-> x.result.Success, invoked |-> x.invoked]

\* TaskExecute that registers an executor while the loops run
TaskExecute_RegistersProbe ==
    /\ pc = "tl_exec"
    /\ registry' = Register(registry, "probe")
    /\ \E os \in Hosts(id.Platform) :
         LET x == Execute(registry', Head(tasks), files, os)
         IN /\ files' = x.fs
            /\ IF x.panicked
               THEN /\ Panic
                    /\ UNCHANGED result
                    /\ events' = Append(events, Event("panic", Index, Head(tasks), x))
               ELSE /\ result' = x.result
                    /\ pc' = "tl_post"
                    /\ events' = Append(events, Event("exec", Index, Head(tasks), x))
    /\ UNCHANGED <<hb, mc, cancelled, id, enrolled, transportClient, lastReq, fatal>>
    /\ UNCHANGED <<tasks, metrics, batch>>
    /\ UNCHANGED <<envVars, enrollVars>>

\* TaskExecute that takes the actions of a batch from its end
TaskExecute_FromTheEnd ==
    /\ pc = "tl_exec"
    /\ \E os \in Hosts(id.Platform) :
         LET task == tasks[Len(tasks)]
             x == Execute(registry, task, files, os)
         IN /\ files' = x.fs
            /\ IF x.panicked
               THEN /\ Panic
                    /\ UNCHANGED result
                    /\ events' = Append(events, Event("panic", Index, task, x))
               ELSE /\ result' = x.result
                    /\ pc' = "tl_post"
                    /\ events' = Append(events, Event("exec", Index, task, x))
    /\ UNCHANGED <<hb, mc, cancelled, id, enrolled, transportClient, registry, lastReq, fatal>>
    /\ UNCHANGED <<tasks, metrics, batch>>
    /\ UNCHANGED <<envVars, enrollVars>>

\* registry.Execute of the action the loop is at
TaskExecute ==
    /\ pc = "tl_exec"
    /\ \E os \in Hosts(id.Platform) :
         LET x == Execute(registry, Head(tasks), files, os)
         IN /\ files' = x.fs
            /\ IF x.panicked
               THEN /\ Panic
                    /\ UNCHANGED result
                    /\ events' = Append(events, Event("panic", Index, Head(tasks), x))
               ELSE /\ result' = x.result
                    /\ pc' = "tl_post"
                    /\ events' = Append(events, Event("exec", Index, Head(tasks), x))
    /\ UNCHANGED <<hb, mc, cancelled, id, enrolled, transportClient, registry, lastReq, fatal>>
    /\ UNCHANGED <<tasks, metrics, batch>>
    /\ UNCHANGED <<envVars, enrollVars>>

\* TaskReport that gives the batch up when a post failed
TaskReport_StopsOnFailedPost ==
    /\ pc = "tl_post"
    /\ \E net \in PlainAnswers :
         LET r == Post(transportClient, cancelled, ResultPath(Head(tasks).ID),
                       ResultBody(result), net)
         IN /\ lastReq' = IF r.sent THEN r.req ELSE lastReq
            /\ tasks' = IF r.err # "nil" THEN <<>> ELSE Tail(tasks)
            /\ pc' = IF tasks' # <<>> THEN "tl_exec" ELSE "tl_select"
    /\ events' = Append(events, Event("post", Index, Head(tasks),
                                       [result |-> result, invoked |-> ""]))
    /\ result' = NoResult
    /\ UNCHANGED <<hb, mc, cancelled, files, id, enrolled, transportClient, registry, fatal>>
    /\ UNCHANGED <<metrics, batch>>
    /\ UNCHANGED <<envVars, enrollVars>>

\* TaskReport that executes the action again when the post failed
TaskReport_RetriesFailedPost ==
    /\ pc = "tl_post"
    /\ \E net \in PlainAnswers :
         LET r == Post(transportClient, cancelled, ResultPath(Head(tasks).ID),
                       ResultBody(result), net)
         IN /\ lastReq' = IF r.sent THEN r.req ELSE lastReq
            /\ tasks' = IF r.err # "nil" THEN tasks ELSE Tail(tasks)
            /\ pc' = IF tasks' # <<>> THEN "tl_exec" ELSE "tl_select"
    /\ events' = Append(events, Event("post", Index, Head(tasks),
                                       [result |-> result, invoked |-> ""]))
    /\ result' = NoResult
    /\ UNCHANGED <<hb, mc, cancelled, files, id, enrolled, transportClient, registry, fatal>>
    /\ UNCHANGED <<metrics, batch>>
    /\ UNCHANGED <<envVars, enrollVars>>

\* TaskReport that gives the batch up after a failed action
TaskReport_AbortsOnFailure ==
    /\ pc = "tl_post"
    /\ \E net \in PlainAnswers :
         LET r == Post(transportClient, cancelled, ResultPath(Head(tasks).ID),
                       ResultBody(result), net)
         IN lastReq' = IF r.sent THEN r.req ELSE lastReq
    /\ events' = Append(events, Event("post", Index, Head(tasks),
                                       [result |-> result, invoked |-> ""]))
    /\ tasks' = IF result.Success THEN Tail(tasks) ELSE <<>>
    /\ result' = NoResult
    /\ pc' = IF tasks' # <<>> THEN "tl_exec" ELSE "tl_select"
    /\ UNCHANGED <<hb, mc, cancelled, files, id, enrolled, transportClient, registry, fatal>>
    /\ UNCHANGED <<metrics, batch>>
    /\ UNCHANGED <<envVars, enrollVars>>

\* The post of the result to the endpoint of the action's id; the loop goes
\* on to the next action whether the post failed or not
TaskReport ==
    /\ pc = "tl_post"
    /\ \E net \in PlainAnswers :
         LET r == Post(transportClient, cancelled, ResultPath(Head(tasks).ID),
                       ResultBody(result), net)
         IN lastReq' = IF r.sent THEN r.req ELSE lastReq
    /\ events' = Append(events, Event("post", Index, Head(tasks),
                                       [result |-> result, invoked |-> ""]))
    /\ tasks' = Tail(tasks)
    /\ result' = NoResult
    /\ pc' = IF Tail(tasks) # <<>> THEN "tl_exec" ELSE "tl_select"
    /\ UNCHANGED <<hb, mc, cancelled, files, id, enrolled, transportClient, registry, fatal>>
    /\ UNCHANGED <<metrics, batch>>
    /\ UNCHANGED <<envVars, enrollVars>>

-----------------------------------------------------------------------------

Next ==
    \/ MainStart
    \/ Cancel
    \/ MainNewEnrollClient
    \/ WaitCancelled
    \/ WaitTick
    \/ MainGenerateCSR
    \/ MainSaveCertificates
    \/ MainEnableMTLS
    \/ MainRegister
    \/ MainStartLoops
    \/ HeartbeatDone
    \/ HeartbeatTick
    \/ HeartbeatPost
    \/ CollectorDone
    \/ CollectorTick
    \/ CollectorExecute
    \/ CollectorPush
    \/ TaskDone
    \/ TaskTick
    \/ TaskPoll
    \/ TaskExecute
    \/ TaskReport

Spec == Init /\ [][Next]_vars

-----------------------------------------------------------------------------
(* A harness around one transport.Client: any sequence of EnableMTLS, Post *)
(* and Get calls, with the credential files changing between the calls.    *)

TransportInit ==
    /\ pc = "harness"
    /\ hb = "off"
    /\ mc = "off"
    /\ cancelled = FALSE
    /\ files \in InitFiles
    /\ token = ""
    /\ id = NoIdentity
    /\ enrolled = FALSE
    /\ enrollClient = NoEnrollClient
    /\ resp = NoResponse
    /\ privateKey = ""
    /\ transportClient = NewClient(BackendURL)
    /\ registry = NewRegistry
    /\ tasks = <<>>
    /\ result = NoResult
    /\ metrics = NoResult
    /\ lastReq = NoRequest
    /\ enrollReqs = 0
    /\ statuses = <<>>
    /\ decoded = NoResponse
    /\ keyGens = 0
    /\ writes = <<>>
    /\ enrolledCount = 0
    /\ fatal = NoFatal
    /\ ncalls = 0
    /\ lastCall = NoCall
    /\ batch = <<>>
    /\ events = <<>>

harnessFrame == <<pc, cancelled, token, id, enrolled, registry, fatal, enrollVars, loopVars>>

HarnessEnableMTLS ==
    /\ pc = "harness" /\ ncalls < MaxCalls
    /\ LET r == EnableMTLS(transportClient, files, CertPath, KeyPath, CACertPath)
       IN /\ transportClient' = r.c
          /\ lastCall' = [op |-> "EnableMTLS", arg |-> "", err |-> r.err, code |-> 0]
    /\ ncalls' = ncalls + 1
    /\ UNCHANGED <<files, lastReq, harnessFrame>>

HarnessPost ==
    /\ pc = "harness" /\ ncalls < MaxCalls
    /\ \E net \in PlainAnswers :
         LET r == Post(transportClient, cancelled, HeartbeatPath, NoData, net)
         IN /\ lastReq' = IF r.sent THEN r.req ELSE lastReq
            /\ lastCall' = [op |-> "Post", arg |-> "", err |-> r.err, code |-> r.resp.code]
    /\ ncalls' = ncalls + 1
    /\ UNCHANGED <<files, transportClient, harnessFrame>>

HarnessGet ==
    /\ pc = "harness" /\ ncalls < MaxCalls
    /\ \E net \in PlainAnswers :
         LET r == Get(transportClient, cancelled, PollPath, net)
         IN /\ lastReq' = IF r.sent THEN r.req ELSE lastReq
            /\ lastCall' = [op |-> "Get", arg |-> "", err |-> r.err, code |-> r.resp.code]
    /\ ncalls' = ncalls + 1
    /\ UNCHANGED <<files, transportClient, harnessFrame>>

\* Somebody replaces the credential files between two calls
HarnessFiles ==
    /\ pc = "harness"
    /\ \E fs \in InitFiles :
         /\ \E p \in Paths : \A q \in Paths \ {p} : fs[q] = files[q]
         /\ files' = fs
    /\ UNCHANGED <<transportClient, lastReq, ncalls, lastCall, harnessFrame>>

TransportNext == HarnessEnableMTLS \/ HarnessPost \/ HarnessGet \/ HarnessFiles

TransportSpec == TransportInit /\ [][TransportNext]_vars

-----------------------------------------------------------------------------
(* A harness around one executor.Registry: any sequence of Register calls  *)
(* with any executors, and then Execute of any action on any host.         *)

Executors == {"service", "system", "user", "file", "package", "probe"}

\* Every kind an executor declares and one that none declares, with the
\* parameter missing and present
HarnessActions ==
    {Action("h1", t, p) :
        t \in UNION {SupportedActions(e) : e \in Executors} \cup {"reboot"},
        p \in {"", KeyPath}}

\* The files of an enrolled agent
EnrolledFiles ==
    [p \in Paths |-> CASE p = CertPath -> CertPEM(1) [] p = KeyPath -> KeyPEM(1) [] OTHER -> CAPEM]

RegistryInit ==
    /\ pc = "registry_harness"
    /\ hb = "off"
    /\ mc = "off"
    /\ cancelled = FALSE
    /\ files = EnrolledFiles
    /\ token = ""
    /\ id = NoIdentity
    /\ enrolled = FALSE
    /\ enrollClient = NoEnrollClient
    /\ resp = NoResponse
    /\ privateKey = ""
    /\ transportClient = NewClient(BackendURL)
    /\ registry = NewRegistry
    /\ tasks = <<>>
    /\ result = NoResult
    /\ metrics = NoResult
    /\ lastReq = NoRequest
    /\ enrollReqs = 0
    /\ statuses = <<>>
    /\ decoded = NoResponse
    /\ keyGens = 0
    /\ writes = <<>>
    /\ enrolledCount = 0
    /\ fatal = NoFatal
    /\ ncalls = 0
    /\ lastCall = NoCall
    /\ batch = <<>>
    /\ events = <<>>

registryFrame ==
    <<hb, mc, cancelled, token, id, enrolled, transportClient, metrics, lastReq, fatal,
      batch, enrollVars>>

\* registry.Register(exec)
HarnessRegister ==
    /\ pc = "registry_harness" /\ ncalls < MaxCalls
    /\ \E exec \in Executors :
         /\ registry' = Register(registry, exec)
         /\ lastCall' = [op |-> "Register", arg |-> exec, err |-> "nil", code |-> 0]
         /\ events' = Append(events, Event("register", Len(events) + 1, Action("", "", ""),
                                            [result |-> NoResult, invoked |-> exec]))
    /\ ncalls' = ncalls + 1
    /\ UNCHANGED <<pc, files, tasks, result, registryFrame>>

\* registry.Execute(ctx, action) on some host
HarnessExecute ==
    /\ pc = "registry_harness"
    /\ \E action \in HarnessActions, goos \in Platforms :
         \E os \in Hosts(goos) :
            LET x == Execute(registry, action, files, os)
            IN /\ files' = x.fs
               /\ tasks' = <<action>>
               /\ result' = x.result
               /\ lastCall' = [op |-> "Execute", arg |-> x.invoked,
                               err |-> IF x.panicked THEN "panic" ELSE "nil", code |-> 0]
    /\ pc' = "registry_done"
    /\ UNCHANGED <<registry, ncalls, events, registryFrame>>

RegistryNext == HarnessRegister \/ HarnessExecute

RegistrySpec == RegistryInit /\ [][RegistryNext]_vars

-----------------------------------------------------------------------------
(* Properties *)

Last(q) == q[Len(q)]
Range(q) == {q[i] : i \in 1..Len(q)}
Count(q, x) == Cardinality({i \in 1..Len(q) : q[i] = x})

\* Where main is once transportClient.EnableMTLS has returned nil
AfterEnableMTLS ==
    {"registry", "start_loops", "tl_select", "tl_poll", "tl_exec", "tl_post", "exit"}

PastEnableMTLS == pc \in AfterEnableMTLS

LoopsStarted == hb # "off" \/ mc # "off" \/ pc \in {"tl_select", "tl_poll", "tl_exec", "tl_post"}

RuntimePaths == {HeartbeatPath, MetricsPath, PollPath} \cup {ResultPath(a.ID) : a \in ActionPool}

\* C1: an approved enrollment response whose certificate or CA certificate
\* is empty is rejected: the run logs no completed enrollment, makes no
\* write to a credential file and does not go on to mutual TLS.
C1_ApprovedWithoutCertificateRejected ==
    (decoded.Status = "approved" /\ (decoded.Certificate = Empty \/ decoded.CACert = Empty))
        => /\ enrolledCount = 0
           /\ writes = <<>>
           /\ pc \notin ({"mtls"} \cup AfterEnableMTLS)

\* The statuses seen so far are k "pending" and then one "approved"
PendingsThenApproved ==
    /\ statuses # <<>>
    /\ Last(statuses) = "approved"
    /\ \A i \in 1..(Len(statuses) - 1) : statuses[i] = "pending"

ThreeWritesOk ==
    writes = <<[path |-> CertPath, outcome |-> "ok"], [path |-> CACertPath, outcome |-> "ok"],
               [path |-> KeyPath, outcome |-> "ok"]>>

\* C2: when the answers are k times "pending" and then "approved", k+1
\* enrollment requests have been sent; a key is generated and files are
\* written only once "approved" has been seen, so no tick that saw
\* "pending" generates a key or writes a file; the enrollment completes at
\* most once, and where the key generation and the three writes succeed
\* it completes exactly once with exactly one write of each of the three
\* files, holding the response's certificate, its CA certificate and the
\* generated key.
C2_PendingThenApprovedEnrollsOnce ==
    /\ PendingsThenApproved => enrollReqs = Count(statuses, "pending") + 1
    /\ (keyGens > 0 \/ writes # <<>> \/ privateKey # "" \/ enrolledCount > 0)
          => (statuses # <<>> /\ Last(statuses) = "approved")
    /\ pc = "wait" => (keyGens = 0 /\ writes = <<>> /\ enrolledCount = 0)
    /\ enrolledCount <= 1 /\ keyGens <= 1
    /\ \A i, j \in 1..Len(writes) : writes[i].path = writes[j].path => i = j
    /\ (PendingsThenApproved /\ pc \notin {"wait", "gen_csr", "save"}
            /\ fatal.msg \notin {"Failed to generate CSR", "Failed to save certificates"})
          => /\ enrolledCount = 1
             /\ keyGens = 1
             /\ ThreeWritesOk
             /\ files[CertPath] = resp.Certificate
             /\ files[CACertPath] = resp.CACert
             /\ files[KeyPath] = privateKey

C2_Witness ==
    /\ statuses = <<"pending", "pending", "approved">>
    /\ enrollReqs = 3
    /\ enrolledCount = 1
    /\ ThreeWritesOk

\* C3: "rejected" is terminal: once a response says rejected the run has
\* ended fatally with an error that carries the control plane's message,
\* rejected was the answer to the last request sent, no key was generated
\* and no credential file was written.
C3_RejectedIsTerminal ==
    "rejected" \in Range(statuses)
        => /\ pc = "fatal"
           /\ fatal = [msg |-> "Enrollment failed", err |-> "enrollment rejected: %s",
                       arg |-> decoded.Message]
           /\ decoded.Status = "rejected"
           /\ Last(statuses) = "rejected"
           /\ Count(statuses, "rejected") = 1
           /\ enrollReqs = Len(statuses)
           /\ writes = <<>> /\ keyGens = 0 /\ enrolledCount = 0
           /\ ~LoopsStarted

C3_Witness ==
    /\ statuses = <<"pending", "rejected">>
    /\ pc = "fatal"
    /\ fatal.arg = "denied by admin"

\* C4: after an approved enrollment with a well-formed certificate and CA
\* certificate whose three files were all written, the run enables mutual
\* TLS with exactly those files: the persisted certificate is for the
\* generated key, and EnableMTLS does not fail.
C4_EnrolledRunEnablesMTLS ==
    (enrolledCount = 1 /\ IsCertPEM(resp.Certificate) /\ resp.CACert = CAPEM)
        => /\ KeyOf(files[CertPath]) = KeyOf(files[KeyPath])
           /\ pc # "fatal"
           /\ pc # "mtls" => transportClient.useMTLS

\* C5: the run infers "already enrolled" exactly when all three credential
\* files are present at start.
C5_EnrolledIffAllThreeFiles ==
    (pc \in {"enroll", "mtls"} /\ writes = <<>>)
        => (enrolled <=> \A p \in Paths : fileExists(files, p))

\* C6: when a write of a credential file fails, the run ends fatally with
\* "Failed to save certificates", logs no completed enrollment, never
\* enables mutual TLS and starts no loop.
C6_WriteFailureIsFatal ==
    (\E i \in 1..Len(writes) : writes[i].outcome # "ok")
        => /\ pc = "fatal"
           /\ fatal.msg = "Failed to save certificates"
           /\ enrolledCount = 0
           /\ ~transportClient.useMTLS
           /\ ~LoopsStarted
           /\ writes[Len(writes)].outcome # "ok"

C6_Witness ==
    /\ Len(writes) = 2
    /\ writes[1].outcome = "ok"
    /\ writes[2].outcome = "write_failed"
    /\ files[CertPath] = resp.Certificate
    /\ pc = "fatal"

\* C7: no request the agent sends holds a private key, and an enrollment
\* request holds exactly the identity's fields and the token.
C7_PrivateKeyNeverTransmitted ==
    /\ \A f \in DOMAIN lastReq.body : ~IsKeyPEM(lastReq.body[f])
    /\ lastReq.path = EnrollPath => lastReq.body = EnrollRequest(id, token)

\* C8: every heartbeat, metrics push, task poll and task result goes out
\* through a client in mutual-TLS mode, a request from a plain client is an
\* enrollment request, and no loop runs before EnableMTLS has succeeded.
C8_RuntimeTrafficIsMTLS ==
    /\ lastReq.path \in RuntimePaths => lastReq.mtls
    /\ (lastReq # NoRequest /\ ~lastReq.mtls) => lastReq.path = EnrollPath
    /\ LoopsStarted => transportClient.useMTLS
    /\ ~enrollClient.transport.useMTLS

C8_Witness ==
    /\ lastReq.path = ResultPath("a1")
    /\ lastReq.mtls
    /\ hb = "tick"
    /\ mc = "push"

\* C9: a client in mutual-TLS mode stays in it over every call, and an
\* EnableMTLS that returns an error leaves the client as it was.
C9_ModeNeverDowngraded ==
    [][/\ transportClient.useMTLS => transportClient'.useMTLS
       /\ (ncalls' # ncalls /\ lastCall'.op = "EnableMTLS" /\ lastCall'.err # "nil")
             => transportClient' = transportClient
       /\ (ncalls' # ncalls /\ lastCall'.op \in {"Post", "Get"})
             => transportClient' = transportClient]_vars

C9_Witness ==
    /\ lastCall.op = "EnableMTLS"
    /\ lastCall.err # "nil"
    /\ transportClient.useMTLS
    /\ lastReq.mtls

\* C10: EnableMTLS returns nil only when the certificate, the private key
\* and the CA certificate file could all be read and parsed; otherwise the
\* run ends fatally and no loop starts.
C10_UnparsableInputIsFatal ==
    (PastEnableMTLS /\ writes = <<>>)
        => /\ IsCertPEM(files[CertPath])
           /\ IsKeyPEM(files[KeyPath])
           /\ AppendCertsFromPEM({}, files[CACertPath]) # {}

-----------------------------------------------------------------------------
(* The three loops on their own, from the moment main has started them in  *)
(* a run that found the agent enrolled, with the scheduling the runtime    *)
(* gives them.                                                             *)

\* The registry main builds before it starts the loops (main.go 115-120)
StartupRegistry ==
    Register(Register(Register(Register(Register(NewRegistry,
        "service"), "system"), "user"), "file"), "package")

LoopInit ==
    /\ pc = "tl_select"
    /\ hb = "select"
    /\ mc = "select"
    /\ cancelled = FALSE
    /\ files = EnrolledFiles
    /\ token = ""
    /\ id \in {Generate(n, machine).id : n \in NodeIds, machine \in RunMachines}
    /\ enrolled = TRUE
    /\ enrollClient = NoEnrollClient
    /\ resp = NoResponse
    /\ privateKey = ""
    /\ transportClient = EnableMTLS(NewClient(BackendURL), EnrolledFiles,
                                    CertPath, KeyPath, CACertPath).c
    /\ registry = StartupRegistry
    /\ tasks = <<>>
    /\ result = NoResult
    /\ metrics = NoResult
    /\ lastReq = NoRequest
    /\ enrollReqs = 0
    /\ statuses = <<>>
    /\ decoded = NoResponse
    /\ keyGens = 0
    /\ writes = <<>>
    /\ enrolledCount = 0
    /\ fatal = NoFatal
    /\ ncalls = 0
    /\ lastCall = NoCall
    /\ batch = <<>>
    /\ events = <<>>

LoopNext ==
    \/ Cancel
    \/ HeartbeatDone
    \/ HeartbeatTick
    \/ HeartbeatPost
    \/ CollectorDone
    \/ CollectorTick
    \/ CollectorExecute
    \/ CollectorPush
    \/ TaskDone
    \/ TaskTick
    \/ TaskPoll
    \/ TaskExecute
    \/ TaskReport

\* A goroutine that can run does run, so a call that has been made returns
\* and the loop takes its next step (weak fairness of the steps of a tick
\* body).  A select with several ready cases takes one of them by a
\* uniform pseudo-random choice, so a loop that comes back to its select
\* again and again with ctx.Done() ready takes that case in the end
\* (strong fairness of the three returns).  Nothing makes a ticker fire
\* or a signal arrive.
LoopFairness ==
    /\ WF_vars(HeartbeatPost)
    /\ WF_vars(CollectorExecute)
    /\ WF_vars(CollectorPush)
    /\ WF_vars(TaskPoll)
    /\ WF_vars(TaskExecute)
    /\ WF_vars(TaskReport)
    /\ SF_vars(HeartbeatDone)
    /\ SF_vars(CollectorDone)
    /\ SF_vars(TaskDone)

LoopSpec == LoopInit /\ [][LoopNext]_vars /\ LoopFairness

-----------------------------------------------------------------------------
(* The loops with what their calls returned on record: the steps are those
   of LoopNext, and the four that make a call keep in lastCall what the
   call returned, as the loops' log lines do *)

ObservedLoopNext ==
    \/ Cancel
    \/ HeartbeatDone
    \/ HeartbeatTick
    \/ ObservedHeartbeatPost
    \/ CollectorDone
    \/ CollectorTick
    \/ ObservedCollectorExecute
    \/ ObservedCollectorPush
    \/ TaskDone
    \/ TaskTick
    \/ ObservedTaskPoll
    \/ TaskExecute
    \/ TaskReport

ObservedLoopSpec == LoopInit /\ [][ObservedLoopNext]_vars

-----------------------------------------------------------------------------
(* monitor.Collector on its own: NewCollector takes any registry, and Start
   runs until the context is cancelled *)

\* The registries a Collector may be given: main's, one without the system
\* executor, and the empty one
CollectorRegistries ==
    {StartupRegistry,
     Register(Register(NewRegistry, "service"), "file"),
     NewRegistry}

\* The transport clients a Collector may be given: main's, with mutual TLS
\* enabled, and one without
CollectorClients ==
    {EnableMTLS(NewClient(BackendURL), EnrolledFiles, CertPath, KeyPath, CACertPath).c,
     NewClient(BackendURL)}

CollectorInit ==
    /\ pc = "collector"
    /\ hb = "off"
    /\ mc = "select"
    /\ cancelled = FALSE
    /\ files = EnrolledFiles
    /\ token = ""
    /\ id \in {Generate(n, machine).id : n \in NodeIds, machine \in RunMachines}
    /\ enrolled = TRUE
    /\ enrollClient = NoEnrollClient
    /\ resp = NoResponse
    /\ privateKey = ""
    /\ transportClient \in CollectorClients
    /\ registry \in CollectorRegistries
    /\ tasks = <<>>
    /\ result = NoResult
    /\ metrics = NoResult
    /\ lastReq = NoRequest
    /\ enrollReqs = 0
    /\ statuses = <<>>
    /\ decoded = NoResponse
    /\ keyGens = 0
    /\ writes = <<>>
    /\ enrolledCount = 0
    /\ fatal = NoFatal
    /\ ncalls = 0
    /\ lastCall = NoCall
    /\ batch = <<>>
    /\ events = <<>>

CollectorNext ==
    \/ Cancel
    \/ CollectorDone
    \/ CollectorTick
    \/ ObservedCollectorExecute
    \/ ObservedCollectorPush

CollectorSpec == CollectorInit /\ [][CollectorNext]_vars

-----------------------------------------------------------------------------
(* identity.Generate on its own: it is called on any machine, once or      *)
(* twice, each time with a fresh node id.                                  *)

HarnessNodeIds == {"node-a", "node-b"}

IdentityInit ==
    /\ pc = "identity_harness"
    /\ hb = "off"
    /\ mc = "off"
    /\ cancelled = FALSE
    /\ files = EnrolledFiles
    /\ token = ""
    /\ id = NoIdentity
    /\ enrolled = FALSE
    /\ enrollClient = NoEnrollClient
    /\ resp = NoResponse
    /\ privateKey = ""
    /\ transportClient = NewClient("")
    /\ registry = NewRegistry
    /\ tasks = <<>>
    /\ result = NoResult
    /\ metrics = NoResult
    /\ lastReq = NoRequest
    /\ enrollReqs = 0
    /\ statuses = <<>>
    /\ decoded = NoResponse
    /\ keyGens = 0
    /\ writes = <<>>
    /\ enrolledCount = 0
    /\ fatal = NoFatal
    /\ ncalls = 0
    /\ lastCall = NoCall
    /\ batch = <<>>
    /\ events = <<>>

identityFrame ==
    <<pc, hb, mc, cancelled, files, token, enrolled, transportClient, registry, tasks,
      result, metrics, lastReq, fatal, batch, enrollVars>>

\* One call of identity.Generate
HarnessGenerate ==
    /\ pc = "identity_harness"
    /\ Len(events) < MaxGenerations
    /\ \E n \in HarnessNodeIds, machine \in Machines :
         LET g == Generate(n, machine)
         IN /\ id' = g.id
            /\ events' = Append(events, [machine |-> machine, id |-> g.id, err |-> g.err])
            /\ lastCall' = [op |-> "Generate", arg |-> n, err |-> g.err, code |-> 0]
    /\ ncalls' = ncalls + 1
    /\ UNCHANGED identityFrame

IdentityNext == HarnessGenerate

IdentitySpec == IdentityInit /\ [][IdentityNext]_vars

\* The action the registry harness dispatched
Dispatched == tasks[1]

\* The executors the registry harness registered, in order
Registered == [i \in 1..Len(events) |-> events[i].invoked]

\* How many entries of events are of one of the kinds ops and for the
\* action at position j of the batch
EventsFor(ops, j) ==
    Cardinality({i \in 1..Len(events) : events[i].op \in ops /\ events[i].idx = j})

\* The task loop is between two batches
BatchDone == pc \in {"tl_select", "tl_poll", "exit"}

\* C11: a call of Post or Get that was answered with a status outside 2xx
\* returns an error to its caller.
C11_NonSuccessStatusIsFailure ==
    (lastCall.op \in {"Post", "Get"} /\ lastCall.code # 0 /\ lastCall.code \notin 200..299)
        => lastCall.err # "nil"

\* C12: Execute of an action whose type the registry does not hold returns
\* a Result with the action's id, success false and an error that names
\* the type; no collaborator is invoked and nothing else happens.
C12_UnregisteredKindFails ==
    (pc = "registry_done" /\ Dispatched.Type \notin DOMAIN registry)
        => /\ result = Result(Dispatched.ID, FALSE, "",
                              "unsupported action type: " \o Dispatched.Type, NoData)
           /\ lastCall.arg = ""
           /\ lastCall.err = "nil"
           /\ files = EnrolledFiles

C12_Witness ==
    /\ pc = "registry_done"
    /\ Dispatched.Type = "file_read"
    /\ Registered = <<"system", "service">>
    /\ result.Error = "unsupported action type: file_read"

\* C13: after any sequence of registrations the registry holds exactly the
\* kinds the registered executors declare, each kind maps to the executor
\* registered last among those that declare it, and Execute of a kind
\* invokes the executor the kind maps to.
C13_LastRegisteredWins ==
    /\ pc \in {"registry_harness", "registry_done"} =>
          /\ DOMAIN registry = UNION {SupportedActions(Registered[i]) : i \in 1..Len(events)}
          /\ \A k \in DOMAIN registry :
                \E i \in 1..Len(events) :
                   /\ registry[k] = Registered[i]
                   /\ k \in SupportedActions(Registered[i])
                   /\ \A j \in (i + 1)..Len(events) : k \notin SupportedActions(Registered[j])
    /\ (pc = "registry_done" /\ Dispatched.Type \in DOMAIN registry)
          => lastCall.arg = registry[Dispatched.Type]

C13_Witness ==
    /\ pc = "registry_done"
    /\ Registered = <<"probe", "system", "file">>
    /\ Dispatched.Type = "system_info"
    /\ lastCall.arg = "system"
    /\ registry["probe_ping"] = "probe"
    /\ registry["file_read"] = "file"

\* C14: once a loop runs, the registry is the one main built and no step
\* changes it, nor the transport client, nor the identity; a step of one
\* loop leaves alone what the other loops work on.
C14_RegistryFrozenWhileLoopsRun ==
    [][LoopsStarted =>
          /\ registry = StartupRegistry
          /\ registry' = registry
          /\ transportClient' = transportClient
          /\ id' = id
          /\ hb' # hb => UNCHANGED <<pc, mc, metrics, tasks, result, batch, files>>
          /\ mc' # mc => UNCHANGED <<pc, hb, tasks, result, batch, files>>
          /\ (pc' # pc /\ pc' # "panic") => UNCHANGED <<hb, mc, metrics>>]_vars

C14_Witness ==
    /\ hb = "tick"
    /\ mc = "collect"
    /\ pc = "tl_exec"
    /\ Len(events) = 2
    /\ registry = StartupRegistry

\* C15: a Result carries the id of the Action it was made for, whether the
\* registry made it or a collaborator, and the task loop posts it to the
\* result endpoint of that id.
C15_ResultEchoesActionId ==
    /\ \A i \in 1..Len(events) :
          events[i].op \in {"exec", "post"}
              => (events[i].rid = events[i].id /\ events[i].id = batch[events[i].idx].ID)
    /\ pc = "tl_post" => result.ActionID = Head(tasks).ID
    /\ metrics # NoResult => metrics.ActionID = "metric"
    /\ \A a \in ActionPool :
          lastReq.path = ResultPath(a.ID) => lastReq.body.action_id = a.ID

C15_Witness ==
    /\ Len(events) = 4
    /\ events[2].type = "reboot"
    /\ events[1].invoked = ""
    /\ events[3].invoked = "system"
    /\ lastReq.path = ResultPath("a2")

\* C16: no action of a batch is dispatched twice and no result is posted
\* twice; every action the loop has moved past has been dispatched once
\* and its result posted once, whether the post failed or not, and the
\* loop leaves a batch only when it has moved past all of it.
C16_OneResultPerAction ==
    /\ \A j \in 1..Len(batch) :
          /\ EventsFor({"exec", "panic"}, j) <= 1
          /\ EventsFor({"post"}, j) <= EventsFor({"exec"}, j)
    /\ \A j \in 1..(Index - 1) :
          EventsFor({"exec"}, j) = 1 /\ EventsFor({"post"}, j) = 1
    /\ BatchDone => (tasks = <<>> /\ Len(events) = 2 * Len(batch))

C16_Witness ==
    /\ pc = "tl_select"
    /\ cancelled
    /\ Len(batch) = 2
    /\ Len(events) = 4
    /\ lastReq.path = PollPath

\* C18: the dispatches and posts of a batch alternate and follow the
\* batch's order: the entry at place i is for the action at position
\* (i+1) div 2, a dispatch at the odd places and the post of its result at
\* the even ones, and the actions still to do are the rest of the batch.
C18_BatchInOrder ==
    /\ \A i \in 1..Len(events) :
          /\ events[i].idx = (i + 1) \div 2
          /\ events[i].idx <= Len(batch)
          /\ events[i].id = batch[events[i].idx].ID
          /\ events[i].type = batch[events[i].idx].Type
          /\ events[i].op = IF i % 2 = 0 THEN "post"
                            ELSE IF i = Len(events) /\ pc = "panic" /\ events[i].op = "panic"
                                 THEN "panic" ELSE "exec"
    /\ tasks = SubSeq(batch, Index, Len(batch))
    /\ pc = "tl_exec" => Len(events) = 2 * (Index - 1)
    /\ pc = "tl_post" => Len(events) = 2 * Index - 1

C18_Witness ==
    /\ pc = "tl_post"
    /\ Len(batch) = 2
    /\ Len(events) = 3
    /\ events[1].id = "a4"
    /\ events[3].id = "a1"

\* C19: the result of an action is the one its own dispatch gave, whatever
\* the other actions of the batch did; after a failed action the loop
\* goes on to the next one, and a batch of N actions ends with N results
\* posted in the batch's order.
C19_FailureDoesNotStopBatch ==
    /\ \A i \in 1..Len(events) :
          /\ events[i].op = "exec" =>
                \E os \in Hosts(id.Platform) :
                   LET x == Execute(registry, batch[events[i].idx], files, os)
                   IN ~x.panicked /\ x.result.Success = events[i].success
          /\ events[i].op = "post" =>
                (events[i - 1].op = "exec" /\ events[i].success = events[i - 1].success)
    /\ (events # <<>> /\ Last(events).op = "post" /\ ~Last(events).success
            /\ Last(events).idx < Len(batch))
          => pc \in {"tl_exec", "panic"}
    /\ BatchDone => EventsFor({"post"}, Len(batch)) = IF batch = <<>> THEN 0 ELSE 1

C19_Witness ==
    /\ pc = "tl_select"
    /\ Len(events) = 4
    /\ events[1].invoked = "system"
    /\ ~events[2].success
    /\ events[3].invoked = "file"
    /\ events[4].success

\* C17: a Result that Execute returns with an error has success false.
C17_ErrorImpliesFailure ==
    pc = "registry_done" => (result.Error # "" => ~result.Success)

C17_Witness ==
    /\ pc = "registry_done"
    /\ lastCall.arg = "service"
    /\ Dispatched.Type = "service_status"
    /\ result.Error # ""
    /\ ~result.Success

\* C20: no dispatch ends the process: whatever the host does with the call
\* a handler makes, Execute returns a Result.
C20_DispatchNeverEndsProcess ==
    pc # "panic"

\* The identifiers of a machine the fingerprint is to rest on: its machine
\* identifier and the hardware address of its first interface that is not
\* a loopback and has one
StableIdentifiers(machine) ==
    <<machine.machineID, getMACAddress(machine.interfaces).mac>>

\* C29: of two calls of Generate on machines of one platform, the
\* fingerprints are the same exactly when the machines have the same
\* machine identifier and the same first hardware address.
C29_FingerprintIdentifiesHost ==
    pc = "identity_harness" =>
        \A i, j \in 1..Len(events) :
            events[i].machine.GOOS = events[j].machine.GOOS =>
                ((StableIdentifiers(events[i].machine) = StableIdentifiers(events[j].machine))
                    <=> (events[i].id.Fingerprint = events[j].id.Fingerprint))

\* C30: Generate returns an error exactly when the machine has no
\* interface that is not a loopback and has a hardware address.
C30_GenerateFailsWithoutInterface ==
    pc = "identity_harness" =>
        \A i \in 1..Len(events) :
            (events[i].err # "nil")
                <=> (getMACAddress(events[i].machine.interfaces).err # "nil")

\* A loop has ended: its goroutine has returned, or the process has ended
\* and every goroutine with it
HeartbeatEnded == hb = "done" \/ pc \in {"exit", "panic"}
CollectorEnded == mc = "done" \/ pc \in {"exit", "panic"}
TaskEnded == pc \in {"exit", "panic"}

\* C21: once the context is cancelled, the heartbeat loop, the collector
\* and the task loop all come to an end.
C21_LoopsEndAfterCancel ==
    cancelled ~> (HeartbeatEnded /\ CollectorEnded /\ TaskEnded)

C21_Witness ==
    /\ cancelled
    /\ pc = "exit"
    /\ hb = "done"
    /\ mc = "done"
    /\ batch # <<>>

\* C22: while the context is not cancelled, none of the three loops has
\* ended.
C22_LoopsEndOnlyOnCancel ==
    (LoopsStarted /\ ~cancelled) => ~(HeartbeatEnded \/ CollectorEnded \/ TaskEnded)

\* C23: once the context is cancelled, no loop leaves its select for a tick
\* body: no heartbeat post, no metrics dispatch and no task poll is begun.
C23_NoTickBodyAfterCancel ==
    [][cancelled =>
          /\ ~(hb = "select" /\ hb' = "tick")
          /\ ~(mc = "select" /\ mc' = "collect")
          /\ ~(pc = "tl_select" /\ pc' = "tl_poll")]_vars

\* C24: once the context is cancelled, the task loop dispatches no action
\* of the batch it is in.
C24_NoDispatchAfterCancel ==
    [][cancelled => ~(pc = "tl_exec" /\ pc' # "tl_exec")]_vars

\* C25: main has returned only when the heartbeat loop and the collector
\* have returned.
C25_ExitWaitsForLoops ==
    pc = "exit" => (hb = "done" /\ mc = "done")

\* C26: a poll of WaitForApproval that fails (the transport's error, an
\* error status, a body that does not decode) leaves the wait going: after
\* it the agent is waiting still, unless the context was cancelled; while
\* it waits it has seen failures and non-terminal statuses only, however
\* many; and "approved" ends the wait whatever came before it.
C26_FailedPollKeepsPending ==
    /\ pc = "wait" => \A i \in 1..Len(statuses) : statuses[i] \in {"error", "pending", "unknown"}
    /\ (statuses # <<>> /\ Last(statuses) = "error")
          => \/ pc = "wait"
             \/ pc = "fatal" /\ fatal.err = "context canceled"
    /\ (statuses # <<>> /\ Last(statuses) = "approved")
          => (pc # "wait" /\ resp.Status = "approved" /\ fatal.msg # "Enrollment failed")

C26_Witness ==
    /\ statuses = <<"error", "error", "approved">>
    /\ enrolledCount = 1
    /\ Len(writes) = 3

\* C27: a run that is not enrolled and has no token ends fatally at once:
\* no request has gone out, no key was generated and no file was written.
C27_NoTokenIsFatalBeforeEnrollment ==
    /\ (~enrolled /\ token = "" /\ pc \notin {"start", "enroll"})
          => (pc = "fatal" /\ fatal.msg = "EINFRA_ENROLL_TOKEN not set")
    /\ fatal.msg = "EINFRA_ENROLL_TOKEN not set"
          => (enrollReqs = 0 /\ lastReq = NoRequest /\ keyGens = 0 /\ writes = <<>>
              /\ enrollClient = NoEnrollClient)

C27_Witness ==
    /\ pc = "fatal"
    /\ fatal.msg = "EINFRA_ENROLL_TOKEN not set"
    /\ ~enrolled
    /\ files[CertPath] = Absent

\* C28: a run that found the agent enrolled sends no enrollment request,
\* generates no key, writes no file and leaves the credential files as
\* they are; a file is written by SaveCertificates after an approval only.
C28_EnrolledRunWritesNothing ==
    [][/\ enrolled' => (enrollReqs' = 0 /\ keyGens' = 0 /\ writes' = <<>>
                         /\ lastReq'.path # EnrollPath)
       /\ enrolled => files' = files
       /\ writes' # writes => (~enrolled /\ pc = "save" /\ resp.Status = "approved")
       /\ files' # files => writes' # writes]_vars

C28_Witness ==
    /\ enrolled
    /\ pc = "tl_post"
    /\ lastReq.path = PollPath
    /\ writes = <<>>
    /\ files = EnrolledFiles

\* C36: the credential files are written only after a response whose
\* status is exactly "approved" was returned in this run; a response whose
\* status is "pending" or a value the agent does not know ends nothing and
\* approves nothing: after it the agent is waiting still (unless the
\* context was cancelled), with no response returned, no key and no write.
C36_OnlyApprovedWritesFiles ==
    /\ (writes # <<>> \/ keyGens > 0 \/ pc \in {"gen_csr", "save"})
          => /\ resp.Status = "approved"
             /\ decoded = resp
             /\ statuses # <<>> /\ Last(statuses) = "approved"
             /\ Count(statuses, "approved") = 1
    /\ (statuses # <<>> /\ Last(statuses) \in {"pending", "unknown"})
          => /\ resp = NoResponse /\ writes = <<>> /\ keyGens = 0
             /\ \/ pc = "wait"
                \/ pc = "fatal" /\ fatal.err = "context canceled"
    /\ resp # NoResponse => resp.Status = "approved"

C36_Witness ==
    /\ statuses = <<"unknown", "pending", "approved">>
    /\ Len(writes) = 3
    /\ resp.Status = "approved"

\* C37: once the context is cancelled while WaitForApproval is waiting, the
\* wait can end in one way only, with the cancellation error and the run
\* ended as a failed enrollment: from then on no enrollment request goes on
\* the wire, no response is returned as an approval, no key is generated,
\* no credential file is written and no loop is started; a run that ended
\* with the cancellation error has generated no key, written no file and
\* started no loop.
C37_CancelledWaitEndsRun ==
    [][/\ (cancelled /\ pc = "wait")
            => /\ pc' \in {"wait", "fatal"}
               /\ pc' = "fatal" => fatal' = [msg |-> "Enrollment failed",
                                             err |-> "context canceled", arg |-> ""]
               /\ enrollReqs' = enrollReqs /\ lastReq' = lastReq
               /\ resp' = NoResponse /\ decoded' = decoded /\ statuses' = statuses
               /\ keyGens' = 0 /\ writes' = <<>> /\ files' = files
               /\ hb' = "off" /\ mc' = "off"
       /\ fatal'.err = "context canceled"
            => /\ cancelled' /\ pc' = "fatal"
               /\ keyGens' = 0 /\ writes' = <<>> /\ enrolledCount' = 0
               /\ resp' = NoResponse
               /\ hb' = "off" /\ mc' = "off" /\ registry' = NewRegistry]_vars

C37_Witness ==
    /\ pc = "fatal"
    /\ fatal.err = "context canceled"
    /\ cancelled
    /\ statuses = <<"pending">>
    /\ keyGens = 0 /\ writes = <<>>

\* C39: the identity of a run does not change once it is generated, nor
\* does the token once it is read or the enrollment client once it is
\* made; every enrollment request that goes on the wire carries the six
\* fields of that identity and that token, and every heartbeat carries its
\* node id and hostname.
C39_IdentityImmutable ==
    [][/\ pc # "start" => id' = id
       /\ pc \notin {"start", "enroll"} => (token' = token /\ enrollClient' = enrollClient)
       /\ enrollClient' # NoEnrollClient
            => (enrollClient'.identity = id' /\ enrollClient'.token = token')
       /\ lastReq'.path = EnrollPath
            => /\ lastReq'.body = EnrollRequest(id', token')
               /\ lastReq'.body.node_id = id'.NodeID
               /\ lastReq'.body.token = token'
       /\ lastReq'.path = HeartbeatPath
            => /\ lastReq'.body.node_id = id'.NodeID
               /\ lastReq'.body.hostname = id'.Hostname]_vars

C39_Witness ==
    /\ enrollReqs = 3
    /\ statuses = <<"pending", "unknown", "pending">>
    /\ lastReq.path = EnrollPath
    /\ lastReq.body = EnrollRequest(id, "token-1")
    /\ id.NodeID = "node-a"

\* C38: where every credential file that exists was put there by this
\* run's SaveCertificates and SaveCertificates failed, the files left behind
\* do not make the next start find the agent enrolled: the certificate and
\* the key do not both exist.
C38_FailedSaveLeavesUnenrolled ==
    (/\ fatal.msg = "Failed to save certificates"
     /\ \A p \in Paths :
           fileExists(files, p)
              => \E i \in 1..Len(writes) :
                    writes[i].path = p /\ writes[i].outcome # "open_failed")
        => ~(fileExists(files, CertPath) /\ fileExists(files, KeyPath))

\* C32: whatever the post of a result did, the loop goes on with the batch:
\* the post of an action that is not the last of its batch is followed by
\* the dispatch of the next action and by nothing else, and a batch the
\* loop has left had every action dispatched once and the post of every
\* result attempted once.  A post that did not reach the wire is a post
\* that failed.
C32_FailedReportDoesNotStopBatch ==
    /\ \A i \in 1..Len(events) :
          (events[i].op = "post" /\ events[i].idx < Len(batch))
             => IF i < Len(events)
                THEN /\ events[i + 1].op \in {"exec", "panic"}
                     /\ events[i + 1].idx = events[i].idx + 1
                     /\ events[i + 1].id = batch[events[i].idx + 1].ID
                ELSE /\ pc \in {"tl_exec", "panic"}
                     /\ tasks # <<>>
                     /\ Head(tasks) = batch[events[i].idx + 1]
    /\ (pc = "tl_select" /\ tasks = <<>>)
          => \A j \in 1..Len(batch) :
                EventsFor({"exec"}, j) = 1 /\ EventsFor({"post"}, j) = 1

C32_Witness ==
    /\ pc = "tl_select"
    /\ cancelled
    /\ Len(batch) = 2
    /\ Len(events) = 4
    /\ lastReq.path = PollPath
    /\ events[2].op = "post" /\ events[2].idx = 1
    /\ events[3].op = "exec" /\ events[3].idx = 2
    /\ events[4].op = "post" /\ events[4].idx = 2

\* C35: the three loops run on goroutines of their own: while the task
\* loop is in a batch, before a dispatch or before a post, the heartbeat
\* loop and the collector can each take the step they are at (a tick, the
\* heartbeat's post, the collector's dispatch, the collector's push), so
\* they go on even when the dispatch never returns; a loop that is at no
\* step has ended because the context was cancelled.
C35_LoopsIndependent ==
    pc \in {"tl_exec", "tl_post"}
        => /\ hb \in {"select", "tick", "done"}
           /\ hb = "done" => cancelled
           /\ hb = "select" => ENABLED HeartbeatTick
           /\ hb = "tick" => ENABLED HeartbeatPost
           /\ mc \in {"select", "collect", "push", "done"}
           /\ mc = "done" => cancelled
           /\ mc = "select" => ENABLED CollectorTick
           /\ mc = "collect" => ENABLED CollectorExecute
           /\ mc = "push" => ENABLED CollectorPush

C35_Witness ==
    /\ pc = "tl_exec"
    /\ Head(tasks).Type = "system_metrics"
    /\ mc = "collect"
    /\ lastReq.path = HeartbeatPath
    /\ events # <<>>

\* C31: while the poll that failed (the Get's error, an error status, a body
\* that does not decode) is the last call that returned, nothing of a
\* batch is there: no action to execute, no dispatch and no post made and
\* no result held; the task loop is back at its select or in its next
\* poll, or it has returned because the context was cancelled, and the
\* step it is at can be taken.
C31_FailedPollExecutesNothing ==
    (lastCall.op = "Get" /\ lastCall.arg = PollPath /\ lastCall.err # "nil")
        => /\ batch = <<>> /\ tasks = <<>> /\ events = <<>>
           /\ result = NoResult
           /\ pc \in {"tl_select", "tl_poll", "exit", "panic"}
           /\ pc = "exit" => cancelled
           /\ pc = "tl_select" => ENABLED TaskTick
           /\ pc = "tl_poll" => ENABLED ObservedTaskPoll

C31_Witness ==
    /\ lastCall = Returns("Get", PollPath, "decode error", 200)
    /\ pc = "tl_poll"
    /\ lastReq.path = PollPath
    /\ ~cancelled

\* C34: the heartbeat loop makes one Post for a tick and no more: a
\* heartbeat's Post returns, and a heartbeat goes on the wire, only in the
\* step that takes the loop from the body of a tick back to its select,
\* whatever the Post returned; from the select the loop gets to a Post
\* again through the ticker only, and it ends only there and only when
\* the context is cancelled.
C34_OneHeartbeatPerTick ==
    [][/\ (lastCall' # lastCall /\ lastCall'.arg = HeartbeatPath)
            => (hb = "tick" /\ hb' = "select")
       /\ (lastReq' # lastReq /\ lastReq'.path = HeartbeatPath)
            => (hb = "tick" /\ hb' = "select" /\ lastCall'.arg = HeartbeatPath)
       /\ (hb = "tick" /\ hb' # "tick")
            => (hb' = "select" /\ lastCall'.op = "Post" /\ lastCall'.arg = HeartbeatPath)
       /\ (hb' = "tick" /\ hb # "tick") => (hb = "select" /\ lastCall' = lastCall)
       /\ (hb' = "done" /\ hb # "done") => (hb = "select" /\ cancelled)]_vars

C34_Witness ==
    /\ lastCall = Returns("Post", HeartbeatPath, "transport error", 0)
    /\ hb = "tick"
    /\ lastReq.path = HeartbeatPath
    /\ ~cancelled

\* C33: a tick of the collector makes one dispatch of a system_metrics
\* action; the dispatch's Result is pushed when it has success and only
\* then, and what goes on the wire is that Result's data, to the metrics
\* endpoint; a dispatch without success (with no executor registered for
\* system_metrics, for one) puts nothing on the wire; after the dispatch
\* failed, and after the push returned whatever it returned, the collector
\* is back at its select, from where only the ticker leads to a dispatch
\* and only a cancelled context to the end.
C33_MetricsPushedIffSuccess ==
    [][/\ (mc = "collect" /\ mc' # "collect")
            => /\ lastReq' = lastReq
               /\ lastCall'.op = "Execute" /\ lastCall'.arg = "system_metrics"
               /\ IF lastCall'.err = "nil"
                  THEN /\ mc' = "push"
                       /\ metrics'.Success /\ metrics'.ActionID = "metric"
                       /\ MetricAction.Type \in DOMAIN registry
                  ELSE /\ mc' = "select"
                       /\ metrics' = NoResult
       /\ (mc = "push" /\ mc' # "push")
            => /\ mc' = "select" /\ metrics' = NoResult
               /\ lastCall'.op = "Post" /\ lastCall'.arg = MetricsPath
       /\ lastReq' # lastReq
            => /\ mc = "push" /\ mc' = "select"
               /\ metrics.Success
               /\ lastReq'.path = MetricsPath /\ lastReq'.body = metrics.Data
       /\ (lastCall' # lastCall /\ lastCall'.op = "Post") => (mc = "push" /\ mc' = "select")
       /\ (lastCall' # lastCall /\ lastCall'.op = "Execute") => mc = "collect"
       /\ (mc' = "collect" /\ mc # "collect") => (mc = "select" /\ lastCall' = lastCall)
       /\ (mc' = "done" /\ mc # "done") => (mc = "select" /\ cancelled)
       /\ MetricAction.Type \notin DOMAIN registry => (lastReq' = NoRequest /\ mc' # "push")
       /\ mc' = "push" <=> metrics' # NoResult]_vars

C33_Witness ==
    /\ MetricAction.Type \notin DOMAIN registry
    /\ lastCall = Returns("Execute", "system_metrics",
                          "unsupported action type: system_metrics", 0)
    /\ mc = "collect"
    /\ lastReq = NoRequest
    /\ ~cancelled

====
